---- MODULE Spec2Model ----
(***************************************************************************)
(* Event prioritisation and dispatch: Candidate Store, Scheduler (token    *)
(* buckets, rounds, autothrottle, life-safety preemption), the queues and  *)
(* the deep workers' consumption of them.                                   *)
(*                                                                         *)
(* Conventions                                                             *)
(*  - Event ids are the integers 1..NumIds; they stand for equal-length    *)
(*    strings ("ev01", "ev02", ...), so the integer order is the           *)
(*    lexicographic order of the ids.                                      *)
(*  - Time is relative.  A bucket keeps `elapsed` = now - last_refill      *)
(*    (capped at BucketHorizon seconds, after which the bucket is full     *)
(*    whatever it held); a processing:{id} marker keeps its remaining      *)
(*    time to live.  Time advances in steps of TickSeconds.                *)
(*  - tokens are real-valued in the code; the model keeps tokens60 =       *)
(*    60 * tokens, an integer because refill_rate = limit/60 and time is   *)
(*    whole seconds.  rate60 = 60 * refill_rate.  Exact arithmetic: the    *)
(*    rounding of binary floating point is not modelled.                   *)
(*  - IntEnum fields are written to the ev:{id} hash with str() and read   *)
(*    back with int(): the model takes str() of an IntEnum member to be    *)
(*    its number (Python >= 3.11).                                         *)
(***************************************************************************)
EXTENDS Integers, Sequences, FiniteSets, TLC

VARIABLES
    ev,               \* ev:{event_id} hashes: [Ids -> candidate record or None]
    cand,             \* cand:{home_id} ordered sets: [Homes -> [members -> score]]
    ttl,              \* remaining TTL in seconds of ev:{id} and cand:{home} keys, 0 = no key
    max_per_home,     \* CandidateStore.max_candidates_per_home of this store
    marker,           \* processing:{event_id} keys: remaining TTL in seconds, 0 = no key
    queues,           \* deep_processing_* lists: [QueueNames -> Seq(descriptor)], head = next brpop
    completions,      \* scheduler_completions list, oldest first
    buckets,          \* ProcessingScheduler.token_buckets
    processing_jobs,  \* ProcessingScheduler.processing_jobs
    jobTier,          \* history: the queue an in-flight id was scheduled to ("" = none)
    daemonPc,         \* position of SchedulerDaemon.start: "round", "keys", "exists", "sleep"
    cleanupKeys,      \* cleanup_stale_jobs: the keys returned by KEYS processing:*
    liteHeld,         \* on_lite_results calls between get_candidate and add_candidate
    pending,          \* the add_candidate and remove_candidate calls suspended at an await
    wsession,         \* per worker: the session being processed (None when idle)
    current_batch,    \* per worker: DeepWorkerV2.current_batch (legacy jobs)
    batchWaited,      \* per worker: time.time() - last_batch_start >= max_batch_wait_time
    tried,            \* per worker: the queues whose BRPOP timed out in this loop iteration
    running,          \* per worker: self.running and the loop: "running", "stopping" (false, the
                      \* iteration not yet over), "exited"
    clock,            \* history: the ticks taken so far, saturating at MaxTicks
    last,             \* the last call made by a unit specification and what it returned
    faulty            \* whether the key-value store may raise errors in this behaviour

vars == << ev, cand, ttl, max_per_home, marker, queues, completions, buckets, processing_jobs, jobTier,
           daemonPc, cleanupKeys, liteHeld, pending, wsession, current_batch,
           batchWaited, tried, running, clock, last, faulty >>

---------------------------------------------------------------------------
(* Bounds of the model *)

MaxEvents == 1        \* event ids used by the ingest path of the pipeline
RoundEvents == 15     \* event ids pre-loaded by the round specification
MaxCompletions == 2   \* cap on the length of scheduler_completions
MaxQueued == 2        \* cap on the descriptors queued or held by workers, pipeline
MaxTicks == 2         \* ticks of TickSeconds the pipeline lets pass

NumIds == IF MaxEvents > RoundEvents THEN MaxEvents ELSE RoundEvents
Ids == 1..NumIds
PipelineIds == 1..MaxEvents
None == [none |-> TRUE]

Homes == {"h1", "h2"}
Workers == {"w1"}

Min(a, b) == IF a < b THEN a ELSE b
Max(a, b) == IF a > b THEN a ELSE b

---------------------------------------------------------------------------
(* candidate_store.py: enums *)

LOW == 1
NORMAL == 2
HIGH == 3
CRITICAL == 4

LITE_ONLY == 1
STANDARD == 2
PREMIUM == 3
ENTERPRISE == 4

ProcessingTier == << LITE_ONLY, STANDARD, PREMIUM, ENTERPRISE >>   \* iteration order of the enum
DeepTierSeq == << STANDARD, PREMIUM, ENTERPRISE >>
DeepTiers == {STANDARD, PREMIUM, ENTERPRISE}

\* tier.name.lower()
TierName(t) ==
    CASE t = LITE_ONLY -> "lite_only"
      [] t = STANDARD -> "standard"
      [] t = PREMIUM -> "premium"
      [] t = ENTERPRISE -> "enterprise"

QueueNames == {"emergency", "enterprise", "premium", "standard", "lite_only"}

---------------------------------------------------------------------------
(* candidate_store.py: EventCandidate *)

\* get_location_importance, in tenths
get_location_importance(location) ==
    CASE location = "front_door" -> 15
      [] location = "back_door" -> 14
      [] location = "driveway" -> 13
      [] location = "garage" -> 12
      [] location = "backyard" -> 11
      [] location = "bedroom" -> 8
      [] OTHER -> 10

\* calculate_time_factor, in tenths
calculate_time_factor(hour) ==
    IF 8 <= hour /\ hour <= 18 THEN 12
    ELSE IF 22 <= hour \/ hour <= 6 THEN 15
    ELSE 10

\* EventCandidate.calculate_score, times 1000.  motion10 = 10 * motion_score,
\* tod10 and loc10 the two factors in tenths, age_min the age in whole minutes.
calculate_score(c) ==
    LET base == c.priority * 100
                + (IF c.person_detected THEN 50 ELSE 0)
                + (IF c.vehicle_detected THEN 30 ELSE 0)
                + c.motion10 * 2
        scaled == base * c.tod10 * c.loc10                \* times 100
        recency_bonus == Max(0, 60 - c.age_min) * 2
    IN  (scaled + recency_bonus * 100) * (10 + c.processing_tier * 2)

\* create_event_candidate_from_api(event_data), lite_results = None
create_event_candidate_from_api(d) ==
    [ event_id |-> d.event_id,
      home_id |-> d.home_id,
      priority |-> IF d.priority >= 3 THEN CRITICAL ELSE NORMAL,
      processing_tier |-> STANDARD,
      location |-> d.location,
      mode |-> d.mode,
      lite_processed |-> FALSE,
      lite_explainer |-> << >>,
      person_detected |-> FALSE,
      vehicle_detected |-> FALSE,
      motion10 |-> 5,
      tod10 |-> calculate_time_factor(d.hour),
      loc10 |-> get_location_importance(d.location),
      age_min |-> d.age_min ]

---------------------------------------------------------------------------
(* The shared state the operations below transform, as one record *)

Cur ==
    [ ev |-> ev, cand |-> cand, ttl |-> ttl, cap |-> max_per_home,
      marker |-> marker, queues |-> queues,
      buckets |-> buckets, jobs |-> processing_jobs, jobTier |-> jobTier ]

Install(s) ==
    /\ ev' = s.ev
    /\ cand' = s.cand
    /\ ttl' = s.ttl
    /\ max_per_home' = s.cap
    /\ marker' = s.marker
    /\ queues' = s.queues
    /\ buckets' = s.buckets
    /\ processing_jobs' = s.jobs
    /\ jobTier' = s.jobTier

\* f with key k removed from its domain
Drop(f, k) == [x \in (DOMAIN f) \ {k} |-> f[x]]
\* f with f[k] = v, k added to the domain when absent
Put(f, k, v) == [x \in (DOMAIN f) \cup {k} |-> IF x = k THEN v ELSE f[x]]

---------------------------------------------------------------------------
(* Ordered sets (Redis ZSET): a function member -> score.  Members of equal *)
(* score are ordered by member, ascending in ZRANGE, descending in         *)
(* ZREVRANGE.                                                               *)

ZLess(f, x, y) == f[x] < f[y] \/ (f[x] = f[y] /\ x < y)

RECURSIVE zrange_all(_)
zrange_all(f) ==
    IF DOMAIN f = {} THEN << >>
    ELSE LET m == CHOOSE x \in DOMAIN f : \A y \in (DOMAIN f) \ {x} : ZLess(f, x, y)
         IN  << m >> \o zrange_all(Drop(f, m))

Reverse(seq) == [i \in 1..Len(seq) |-> seq[Len(seq) + 1 - i]]
Take(seq, n) == SubSeq(seq, 1, Min(n, Len(seq)))

\* ZRANGE key 0 n-1 and ZREVRANGE key 0 n-1
zrange(f, n) == Take(zrange_all(f), n)
zrevrange(f, n) == Take(Reverse(zrange_all(f)), n)

---------------------------------------------------------------------------
(* candidate_store.py: CandidateStore *)

max_candidates_per_home == 2000
candidate_ttl == 86400

\* Errors the key-value store can raise, by the command that raises
Errs == {"none", "lpush", "setex", "zrem"}

\* get_candidate: the hash parsed back into an EventCandidate, None when absent
get_candidate(s, e) == s.ev[e]

RECURSIVE DeleteRecords(_, _)
DeleteRecords(evs, ids) ==
    IF ids = << >> THEN evs
    ELSE DeleteRecords([evs EXCEPT ![Head(ids)] = None], Tail(ids))

\* no key of the store has a TTL
NoTtl == [ev |-> [e \in Ids |-> 0], cand |-> [h \in Homes |-> 0]]

\* the TTL of an ordered set's key: the key is gone once the set is empty
KeyTtl(f, t) == IF DOMAIN f = {} THEN 0 ELSE t

\* a variant that trims from the top of the order
cleanup_old_candidates_top(s, h) ==
    LET count == Cardinality(DOMAIN s.cand[h])
        to_remove == count - s.cap
        old_candidates == zrevrange(s.cand[h], to_remove)
        kept == [x \in (DOMAIN s.cand[h]) \ {old_candidates[i] : i \in 1..Len(old_candidates)}
                   |-> s.cand[h][x]]
    IN  IF count > s.cap /\ old_candidates # << >>
        THEN [s EXCEPT
                !.cand[h] = kept,
                !.ev = DeleteRecords(s.ev, old_candidates),
                !.ttl.ev = [e \in Ids |-> IF \E i \in 1..Len(old_candidates) : old_candidates[i] = e
                                          THEN 0 ELSE s.ttl.ev[e]],
                !.ttl.cand[h] = KeyTtl(kept, s.ttl.cand[h])]
        ELSE s

\* _cleanup_old_candidates(home_id)
cleanup_old_candidates(s, h) ==
    LET count == Cardinality(DOMAIN s.cand[h])
        to_remove == count - s.cap
        old_candidates == zrange(s.cand[h], to_remove)
        kept == [x \in (DOMAIN s.cand[h]) \ {old_candidates[i] : i \in 1..Len(old_candidates)}
                   |-> s.cand[h][x]]
    IN  IF count > s.cap /\ old_candidates # << >>
        THEN [s EXCEPT
                !.cand[h] = kept,
                !.ev = DeleteRecords(s.ev, old_candidates),
                !.ttl.ev = [e \in Ids |-> IF \E i \in 1..Len(old_candidates) : old_candidates[i] = e
                                          THEN 0 ELSE s.ttl.ev[e]],
                !.ttl.cand[h] = KeyTtl(kept, s.ttl.cand[h])]
        ELSE s

\* add_candidate, the record: HSET ev:{id}, EXPIRE ev:{id}
store_record(s, c) ==
    [s EXCEPT !.ev[c.event_id] = c, !.ttl.ev[c.event_id] = candidate_ttl]

\* add_candidate, the index: ZADD cand:{home} at the score, EXPIRE cand:{home}
index_candidate(s, c) ==
    [s EXCEPT !.cand[c.home_id] = Put(s.cand[c.home_id], c.event_id, calculate_score(c)),
              !.ttl.cand[c.home_id] = candidate_ttl]

\* the commands of add_candidate at which the key-value store may raise
AddErrs == {"exists", "hset", "zadd", "sadd"}

\* add_candidate(candidate) when the command err raises as it is reached
\* ("none": no command raises): the state afterwards and what is returned.
\* The except clause returns False and undoes nothing.
add_candidate_result(s, c, err) ==
    LET exists == s.ev[c.event_id] # None
    IN  IF err = "exists" THEN [s |-> s, ok |-> FALSE]
        ELSE IF exists
        THEN IF err = "zadd" THEN [s |-> s, ok |-> FALSE]
             ELSE [s |-> index_candidate(s, c), ok |-> TRUE]
        ELSE IF err = "hset" THEN [s |-> s, ok |-> FALSE]
        ELSE IF err = "zadd" THEN [s |-> store_record(s, c), ok |-> FALSE]
        ELSE IF err = "sadd" THEN [s |-> index_candidate(store_record(s, c), c), ok |-> FALSE]
        ELSE [s |-> cleanup_old_candidates(index_candidate(store_record(s, c), c), c.home_id),
              ok |-> TRUE]

\* add_candidate(candidate): the state after the call (it returns True)
add_candidate(s, c) == add_candidate_result(s, c, "none").s

\* remove_candidate(event_id, home_id): ZREM, then DEL of the record
remove_candidate(s, e, h, err) ==
    IF err = "zrem" THEN s
    ELSE [s EXCEPT !.cand[h] = Drop(s.cand[h], e), !.ev[e] = None,
                   !.ttl.ev[e] = 0,
                   !.ttl.cand[h] = KeyTtl(Drop(s.cand[h], e), s.ttl.cand[h])]

RECURSIVE Records(_, _)
\* the loop of get_top_candidates: members whose record is gone are skipped
Records(s, ids) ==
    IF ids = << >> THEN << >>
    ELSE LET c == get_candidate(s, Head(ids))
         IN  (IF c = None THEN << >> ELSE << c >>) \o Records(s, Tail(ids))

\* get_top_candidates(home_id, limit)
get_top_candidates(s, h, limit) == Records(s, zrevrange(s.cand[h], limit))

\* list.sort(key=calculate_score, reverse=True): stable, descending
InsertDesc(sorted, c) ==
    LET k == Cardinality({i \in 1..Len(sorted) : calculate_score(sorted[i]) >= calculate_score(c)})
    IN  SubSeq(sorted, 1, k) \o << c >> \o SubSeq(sorted, k + 1, Len(sorted))

RECURSIVE SortByScore(_, _)
SortByScore(sorted, rest) ==
    IF rest = << >> THEN sorted
    ELSE SortByScore(InsertDesc(sorted, Head(rest)), Tail(rest))

SelectTier(cs, tier) == SelectSeq(cs, LAMBDA c : c.processing_tier = tier)

RECURSIVE TierCandidates(_, _, _, _)
TierCandidates(s, home_keys, tier, limit) ==
    IF home_keys = << >> THEN << >>
    ELSE SelectTier(get_top_candidates(s, Head(home_keys), limit), tier)
         \o TierCandidates(s, Tail(home_keys), tier, limit)

\* KEYS cand:*, in the order the store returns them (horder): a key exists
\* while its ordered set has a member
HomeKeys(s, horder) == SelectSeq(horder, LAMBDA h : DOMAIN s.cand[h] # {})

\* get_candidates_by_tier(processing_tier, limit)
get_candidates_by_tier(s, tier, limit, horder) ==
    Take(SortByScore(<< >>, TierCandidates(s, HomeKeys(s, horder), tier, limit)), limit)

HomeOrders == {<< "h1", "h2" >>, << "h2", "h1" >>}

---------------------------------------------------------------------------
(* Text: an explainer is a sequence of one-character strings *)

UpperSeq == << "A", "B", "C", "D", "E", "F", "G", "H", "I", "J", "K", "L", "M",
               "N", "O", "P", "Q", "R", "S", "T", "U", "V", "W", "X", "Y", "Z" >>
LowerSeq == << "a", "b", "c", "d", "e", "f", "g", "h", "i", "j", "k", "l", "m",
               "n", "o", "p", "q", "r", "s", "t", "u", "v", "w", "x", "y", "z" >>

LowerChar(ch) ==
    IF \E i \in 1..Len(UpperSeq) : UpperSeq[i] = ch
    THEN LowerSeq[CHOOSE i \in 1..Len(UpperSeq) : UpperSeq[i] = ch]
    ELSE ch

\* str.lower()
Lower(text) == [i \in 1..Len(text) |-> LowerChar(text[i])]

\* pat in text
Contains(text, pat) ==
    \E i \in 1..(Len(text) - Len(pat) + 1) : SubSeq(text, i, i + Len(pat) - 1) = pat

---------------------------------------------------------------------------
(* scheduler.py: TokenBucket *)

BucketHorizon == 60

\* a variant that grants every request and takes no token
consume_unmetered(b, tokens_needed) ==
    [b |-> [b EXCEPT !.elapsed = 0], ok |-> TRUE]

\* a variant that takes the tokens also when it refuses
consume_overdraw(b, tokens_needed) ==
    LET refilled == Min(b.capacity * 60, b.tokens60 + b.elapsed * b.rate60)
    IN  [b |-> [b EXCEPT !.tokens60 = refilled - tokens_needed * 60, !.elapsed = 0],
         ok |-> refilled >= tokens_needed * 60]

\* TokenBucket.consume(tokens_needed): the bucket afterwards and the result
consume(b, tokens_needed) ==
    LET refilled == Min(b.capacity * 60, b.tokens60 + b.elapsed * b.rate60)
    IN  IF refilled >= tokens_needed * 60
        THEN [b |-> [b EXCEPT !.tokens60 = refilled - tokens_needed * 60, !.elapsed = 0],
              ok |-> TRUE]
        ELSE [b |-> [b EXCEPT !.tokens60 = refilled, !.elapsed = 0], ok |-> FALSE]

---------------------------------------------------------------------------
(* scheduler.py: SchedulingPolicy and ProcessingScheduler.__init__ *)

tier_limits(t) ==
    CASE t = LITE_ONLY -> 0
      [] t = STANDARD -> 2
      [] t = PREMIUM -> 7
      [] t = ENTERPRISE -> 32

max_batch_size == 10
top_k_limit == 50
processing_timeout == 300
num_gpus == 1
autothrottle_threshold == 150 * num_gpus
min_best_effort_k == 5

\* _initialize_token_buckets: one full bucket per tier with a positive limit
initialize_token_buckets ==
    [t \in {x \in 1..4 : tier_limits(x) > 0} |->
        [capacity |-> tier_limits(t), tokens60 |-> tier_limits(t) * 60,
         rate60 |-> tier_limits(t), elapsed |-> 0]]

---------------------------------------------------------------------------
(* scheduler.py: ProcessingScheduler *)

\* the legacy job descriptor _enqueue_for_processing builds.  Descriptors of
\* both kinds are records of one shape: a job's event_id is kept as a
\* one-element event_ids, its lite_results as whether it carries any, and the
\* keys a kind does not have (K, deadline_ms for a job; mode for a session)
\* are 0 or "".
JobData(c, tier) ==
    [ kind |-> "job", event_ids |-> << c.event_id >>, home_id |-> c.home_id,
      tier |-> TierName(tier), K |-> 0, deadline_ms |-> 0, mode |-> c.mode,
      lite_results |-> c.lite_processed ]

\* the session descriptor schedule_life_safety_event builds
LifeSafetySession(c) ==
    [ kind |-> "session", event_ids |-> << c.event_id >>, home_id |-> c.home_id,
      tier |-> "emergency", K |-> 12, deadline_ms |-> 2000, mode |-> "",
      lite_results |-> FALSE ]

\* LPUSH: the list's newest element; BRPOP takes the oldest, kept at the head
lpush(s, q, d) == [s EXCEPT !.queues[q] = Append(s.queues[q], d)]

\* _enqueue_for_processing(candidate, tier): LPUSH of the job, then SETEX of
\* the processing:{event_id} marker; an error in either returns False
enqueue_for_processing(s, c, tier, err) ==
    IF err = "lpush" THEN [s |-> s, ok |-> FALSE]
    ELSE IF err = "setex" THEN [s |-> lpush(s, TierName(tier), JobData(c, tier)), ok |-> FALSE]
    ELSE [s |-> [lpush(s, TierName(tier), JobData(c, tier))
                    EXCEPT !.marker[c.event_id] = processing_timeout],
          ok |-> TRUE]

\* processing_jobs.add(event_id), with the history of the tier it went under
TrackJob(s, e, tname) ==
    [s EXCEPT !.jobs = s.jobs \cup {e}, !.jobTier[e] = tname]

\* the candidate loop of _schedule_tier over the fetched candidates cs
RECURSIVE ScheduleLoop(_, _, _, _, _, _)
ScheduleLoop(s, tier, cs, scheduled_count, rate_limited_count, err) ==
    IF cs = << >>
    THEN [s |-> s, scheduled |-> scheduled_count, rate_limited |-> rate_limited_count]
    ELSE
      LET candidate == Head(cs)
          got == consume(s.buckets[tier], 1)
          s1 == [s EXCEPT !.buckets[tier] = got.b]
          enq == enqueue_for_processing(s1, candidate, tier, err)
          s2 == IF enq.ok
                THEN remove_candidate(TrackJob(enq.s, candidate.event_id, TierName(tier)),
                                      candidate.event_id, candidate.home_id, err)
                ELSE enq.s
          count == IF enq.ok THEN scheduled_count + 1 ELSE scheduled_count
      IN  IF candidate.event_id \in s.jobs
          THEN ScheduleLoop(s, tier, Tail(cs), scheduled_count, rate_limited_count, err)
          ELSE IF ~got.ok
          THEN ScheduleLoop(s1, tier, Tail(cs), scheduled_count, rate_limited_count + 1, err)
          ELSE IF count >= max_batch_size
          THEN [s |-> s2, scheduled |-> count, rate_limited |-> rate_limited_count]
          ELSE ScheduleLoop(s2, tier, Tail(cs), count, rate_limited_count, err)

\* _schedule_tier(tier, stats): the state afterwards and the tier's stats
schedule_tier(s, tier, horder, err) ==
    LET candidates == get_candidates_by_tier(s, tier, top_k_limit, horder)
        r == ScheduleLoop(s, tier, candidates, 0, 0, err)
    IN  IF tier \notin DOMAIN s.buckets
        THEN [s |-> s, candidates_found |-> 0, scheduled |-> 0, rate_limited |-> 0]
        ELSE [s |-> r.s, candidates_found |-> Len(candidates),
              scheduled |-> r.scheduled, rate_limited |-> r.rate_limited]

\* a variant that counts the in-flight set only
get_deep_processing_backlog_inflight(s) == Cardinality(s.jobs)

\* _get_deep_processing_backlog
get_deep_processing_backlog(s) ==
    Len(s.queues[TierName(STANDARD)]) + Len(s.queues[TierName(PREMIUM)])
    + Len(s.queues[TierName(ENTERPRISE)]) + Cardinality(s.jobs)

\* int(original_capacity * (1 - throttle_reduction)) with throttle_reduction = 0.4
ReducedCapacity(capacity) == (capacity * 6) \div 10

\* a variant that sets the capacity whether or not it is lower
ThrottleBucket_always(b) ==
    LET new_capacity == Max(min_best_effort_k, ReducedCapacity(b.capacity))
    IN  [b EXCEPT !.capacity = new_capacity,
                  !.tokens60 = Min(b.tokens60, new_capacity * 60)]

\* the body of the loop of _apply_autothrottle, for one bucket
ThrottleBucket(b) ==
    LET new_capacity == Max(min_best_effort_k, ReducedCapacity(b.capacity))
    IN  IF new_capacity < b.capacity
        THEN [b EXCEPT !.capacity = new_capacity,
                       !.tokens60 = Min(b.tokens60, new_capacity * 60)]
        ELSE b

\* _apply_autothrottle
apply_autothrottle(s) ==
    [s EXCEPT !.buckets = [t \in DOMAIN s.buckets |-> ThrottleBucket(s.buckets[t])]]

RECURSIVE ScheduleTiers(_, _, _, _, _)
\* the loop of schedule_round over ProcessingTier, LITE_ONLY skipped
ScheduleTiers(s, tiers, horder, err, stats) ==
    IF tiers = << >> THEN [s |-> s, stats |-> stats]
    ELSE IF Head(tiers) = LITE_ONLY
    THEN ScheduleTiers(s, Tail(tiers), horder, err, stats)
    ELSE LET r == schedule_tier(s, Head(tiers), horder, err)
         IN  ScheduleTiers(r.s, Tail(tiers), horder, err,
                 [stats EXCEPT
                    !.scheduled[Head(tiers)] = r.scheduled,
                    !.rate_limited[Head(tiers)] = r.rate_limited,
                    !.candidates_found[Head(tiers)] = r.candidates_found])

\* schedule_round: the state afterwards and the round's stats
schedule_round(s, horder, err) ==
    LET deep_backlog == get_deep_processing_backlog(s)
        throttle == deep_backlog > autothrottle_threshold
        s1 == IF throttle THEN apply_autothrottle(s) ELSE s
        stats0 == [ scheduled |-> [t \in DeepTiers |-> 0],
                    rate_limited |-> [t \in DeepTiers |-> 0],
                    candidates_found |-> [t \in DeepTiers |-> 0],
                    autothrottled |-> throttle,
                    backlog_size |-> deep_backlog ]
    IN  ScheduleTiers(s1, ProcessingTier, horder, err, stats0)

\* a variant that leaves the forced event in the store
force_schedule_event_kept(s, e, tier, err) ==
    LET candidate == get_candidate(s, e)
        enq == enqueue_for_processing(s, candidate, tier, err)
    IN  IF candidate = None THEN [s |-> s, ok |-> FALSE]
        ELSE IF enq.ok THEN [s |-> TrackJob(enq.s, e, TierName(tier)), ok |-> TRUE]
        ELSE [s |-> enq.s, ok |-> FALSE]

\* force_schedule_event(event_id, tier)
force_schedule_event(s, e, tier, err) ==
    LET candidate == get_candidate(s, e)
        enq == enqueue_for_processing(s, candidate, tier, err)
    IN  IF candidate = None THEN [s |-> s, ok |-> FALSE]
        ELSE IF enq.ok
        THEN [s |-> remove_candidate(TrackJob(enq.s, e, TierName(tier)), e, candidate.home_id, err),
              ok |-> TRUE]
        ELSE [s |-> enq.s, ok |-> FALSE]

life_safety_indicators ==
    { << "g", "l", "a", "s", "s", "b", "r", "e", "a", "k" >>,
      << "s", "m", "o", "k", "e" >>,
      << "c", "o" >>,
      << "c", "a", "r", "b", "o", "n", "_", "m", "o", "n", "o", "x", "i", "d", "e" >>,
      << "f", "o", "r", "c", "e", "d", "_", "e", "n", "t", "r", "y" >>,
      << "e", "m", "e", "r", "g", "e", "n", "c", "y" >>,
      << "a", "l", "a", "r", "m" >>,
      << "b", "r", "e", "a", "k", "_", "i", "n" >> }

\* a variant that looks at the mode only
is_life_safety_event_mode_only(c) ==
    c.mode \in {"emergency", "alarm"}

\* _is_life_safety_event(candidate)
is_life_safety_event(c) ==
    \/ /\ c.lite_explainer # << >>
       /\ \E indicator \in life_safety_indicators : Contains(Lower(c.lite_explainer), indicator)
    \/ /\ c.location \in {"front_door", "back_door"}
       /\ c.priority >= CRITICAL
    \/ c.mode \in {"emergency", "alarm"}

\* a variant that meters the preemption through the STANDARD bucket
schedule_life_safety_event_metered(s, c, err) ==
    LET got == consume(s.buckets[STANDARD], 1)
        s1 == [s EXCEPT !.buckets[STANDARD] = got.b]
    IN  IF ~is_life_safety_event(c) THEN [s |-> s, ok |-> FALSE]
        ELSE IF ~got.ok \/ err = "lpush" THEN [s |-> s1, ok |-> FALSE]
        ELSE [s |-> remove_candidate(
                        TrackJob(lpush(s1, "emergency", LifeSafetySession(c)), c.event_id, "emergency"),
                        c.event_id, c.home_id, err),
              ok |-> TRUE]

\* schedule_life_safety_event(candidate)
schedule_life_safety_event(s, c, err) ==
    IF ~is_life_safety_event(c) THEN [s |-> s, ok |-> FALSE]
    ELSE IF err = "lpush" THEN [s |-> s, ok |-> FALSE]
    ELSE [s |-> remove_candidate(
                    TrackJob(lpush(s, "emergency", LifeSafetySession(c)), c.event_id, "emergency"),
                    c.event_id, c.home_id, err),
          ok |-> TRUE]

\* handle_processing_completion(event_id): discard, then DEL of the marker
handle_processing_completion(s, e) ==
    [s EXCEPT !.jobs = s.jobs \ {e}, !.jobTier[e] = "", !.marker[e] = 0]

---------------------------------------------------------------------------
(* scheduler.py: cleanup_stale_jobs, in its two store round trips *)

\* KEYS processing:* returns the markers that exist
processing_keys(s) == {e \in Ids : s.marker[e] > 0}

\* the loop over the returned keys: EXISTS, and discard when it is gone
cleanup_stale_jobs(s, timeout_keys) ==
    LET gone == {e \in timeout_keys : s.marker[e] = 0}
    IN  [s EXCEPT !.jobs = s.jobs \ gone,
                  !.jobTier = [e \in Ids |-> IF e \in gone THEN "" ELSE s.jobTier[e]]]

---------------------------------------------------------------------------
(* scheduler.py: integrate_with_mobile_api.on_lite_results *)

\* the candidate on_lite_results holds after applying lite_results to it
WithLiteResults(c, r) ==
    [c EXCEPT !.lite_processed = TRUE,
              !.lite_explainer = r.explainer,
              !.person_detected = r.person,
              !.vehicle_detected = r.vehicle]

---------------------------------------------------------------------------
(* deep_worker_v2.py: DeepWorkerV2 *)

batch_size == 5
queue_names == << "emergency", "enterprise", "premium", "standard" >>

\* the first queue, in the order of queue_names, that BRPOP finds non-empty
FirstReady(qs) ==
    LET ready == {i \in 1..Len(queue_names) : qs[queue_names[i]] # << >>}
    IN  queue_names[CHOOSE i \in ready : \A j \in ready : i <= j]

\* _should_process_batch
should_process_batch(batch, waited) ==
    batch # << >> /\ (Len(batch) >= batch_size \/ waited)

\* _notify_scheduler_completion for each event id of ids, in order
RECURSIVE NotifyAll(_, _, _)
NotifyAll(cs, ids, success) ==
    IF ids = << >> THEN cs
    ELSE NotifyAll(Append(cs, [event_id |-> Head(ids), success |-> success]), Tail(ids), success)

\* the event ids of the jobs of a legacy batch
BatchIds(batch) == [i \in 1..Len(batch) |-> batch[i].event_ids[1]]

---------------------------------------------------------------------------
(* Inputs of the pipeline specifications *)

TickSeconds == 30

\* the events the mobile API delivers, any number of times each: event 1 is
\* raised in emergency mode, the others in security mode
ApiEvents ==
    { [event_id |-> e, home_id |-> "h1", mode |-> IF e = 1 THEN "emergency" ELSE "security",
       location |-> "backyard", priority |-> 1, hour |-> 12, age_min |-> 60] :
         e \in PipelineIds }

\* a candidate handed to add_candidate directly, with a tier of its own;
\* odd ids belong to home h1, even ids to h2
DirectCandidate(e, tier) ==
    [create_event_candidate_from_api(
        [event_id |-> e, home_id |-> IF e % 2 = 1 THEN "h1" ELSE "h2", mode |-> "security",
         location |-> "backyard", priority |-> 1, hour |-> 12, age_min |-> 60])
     EXCEPT !.processing_tier = tier]

LiteResults ==
    { [explainer |-> << "P", "e", "r", "s", "o", "n" >>, person |-> TRUE, vehicle |-> FALSE] }

ForceTiers == {LITE_ONLY, STANDARD}

ErrsNow == IF faulty THEN Errs ELSE {"none"}

NoCall == [op |-> "none", id |-> 0, ok |-> FALSE, arg |-> None]

\* no call of the store is suspended
NoPending == [add |-> None, remove |-> None]

---------------------------------------------------------------------------
(* Initial state: a started scheduler and workers over an empty store *)

InitCommon ==
    /\ ev = [e \in Ids |-> None]
    /\ cand = [h \in Homes |-> << >>]
    /\ ttl = NoTtl
    /\ max_per_home = max_candidates_per_home
    /\ marker = [e \in Ids |-> 0]
    /\ queues = [q \in QueueNames |-> << >>]
    /\ completions = << >>
    /\ buckets = initialize_token_buckets
    /\ processing_jobs = {}
    /\ jobTier = [e \in Ids |-> ""]
    /\ daemonPc = "round"
    /\ cleanupKeys = {}
    /\ liteHeld = [e \in Ids |-> None]
    /\ pending = NoPending
    /\ wsession = [w \in Workers |-> None]
    /\ current_batch = [w \in Workers |-> << >>]
    /\ batchWaited = [w \in Workers |-> FALSE]
    /\ tried = [w \in Workers |-> << >>]
    /\ running = [w \in Workers |-> "running"]
    /\ clock = 0
    /\ last = NoCall

Init ==
    /\ InitCommon
    /\ faulty = FALSE

InitFaults ==
    /\ InitCommon
    /\ faulty = TRUE

apiVars == << liteHeld, pending >>
daemonVars == << daemonPc, cleanupKeys >>
workerVars == << wsession, current_batch, batchWaited, tried, running, completions >>
storeVars == << ev, cand, ttl, max_per_home, marker, queues, buckets, processing_jobs, jobTier >>

---------------------------------------------------------------------------
(* Actions *)

\* on_new_event(event_data)
OnNewEvent(d) ==
    /\ Install(add_candidate(Cur, create_event_candidate_from_api(d)))
    /\ UNCHANGED << apiVars, daemonVars, workerVars, clock, last, faulty >>

\* a direct CandidateStore.add_candidate(candidate)
AddCandidate(c) ==
    /\ Install(add_candidate(Cur, c))
    /\ UNCHANGED << apiVars, daemonVars, workerVars, clock, last, faulty >>

\* on_lite_results up to its await of add_candidate: the candidate is read
\* and updated in memory
LiteRead(e, r) ==
    /\ liteHeld[e] = None
    /\ get_candidate(Cur, e) # None
    /\ liteHeld' = [liteHeld EXCEPT ![e] = WithLiteResults(get_candidate(Cur, e), r)]
    /\ UNCHANGED << pending, storeVars, daemonVars, workerVars, clock, last, faulty >>

\* on_lite_results: the add_candidate of the updated candidate
LiteAdd(e) ==
    /\ liteHeld[e] # None
    /\ Install(add_candidate(Cur, liteHeld[e]))
    /\ liteHeld' = [liteHeld EXCEPT ![e] = None]
    /\ UNCHANGED << pending, daemonVars, workerVars, clock, last, faulty >>

\* SchedulerDaemon.start: schedule_round
DaemonRound(horder, err) ==
    /\ daemonPc = "round"
    /\ Install(schedule_round(Cur, horder, err).s)
    /\ daemonPc' = "keys"
    /\ UNCHANGED << cleanupKeys, apiVars, workerVars, clock, last, faulty >>

\* SchedulerDaemon.start: cleanup_stale_jobs, the KEYS round trip
DaemonCleanupKeys ==
    /\ daemonPc = "keys"
    /\ cleanupKeys' = processing_keys(Cur)
    /\ daemonPc' = "exists"
    /\ UNCHANGED << storeVars, apiVars, workerVars, clock, last, faulty >>

\* SchedulerDaemon.start: cleanup_stale_jobs, the EXISTS loop; then the sleep
DaemonCleanupExists ==
    /\ daemonPc = "exists"
    /\ Install(cleanup_stale_jobs(Cur, cleanupKeys))
    /\ cleanupKeys' = {}
    /\ daemonPc' = "sleep"
    /\ UNCHANGED << apiVars, workerVars, clock, last, faulty >>

\* TickSeconds pass while the daemon sleeps: buckets age, markers run down,
\* the daemon wakes.  The TTLs of the store's keys, a day long, are left as
\* they are: the ticks of a behaviour add up to minutes.
Tick ==
    /\ daemonPc = "sleep"
    /\ clock' = Min(MaxTicks, clock + 1)
    /\ buckets' = [t \in DOMAIN buckets |->
                     [buckets[t] EXCEPT !.elapsed = Min(BucketHorizon, @ + TickSeconds)]]
    /\ marker' = [e \in Ids |-> Max(0, marker[e] - TickSeconds)]
    /\ batchWaited' = [w \in Workers |-> TRUE]
    /\ daemonPc' = "round"
    /\ UNCHANGED << ev, cand, ttl, max_per_home, queues, processing_jobs, jobTier, cleanupKeys, apiVars,
                    wsession, current_batch, tried, running, completions, last, faulty >>

\* force_schedule_event(event_id, tier), an operator's call
Force(e, tier, err) ==
    /\ Install(force_schedule_event(Cur, e, tier, err).s)
    /\ UNCHANGED << apiVars, daemonVars, workerVars, clock, last, faulty >>

\* schedule_life_safety_event(candidate) on a candidate read from the store
LifeSafety(e, err) ==
    /\ get_candidate(Cur, e) # None
    /\ Install(schedule_life_safety_event(Cur, get_candidate(Cur, e), err).s)
    /\ UNCHANGED << apiVars, daemonVars, workerVars, clock, last, faulty >>

\* handle_processing_completion(event_id) for a completion record of the list
HandleCompletion(e) ==
    /\ \E i \in 1..Len(completions) : completions[i].event_id = e
    /\ Install(handle_processing_completion(Cur, e))
    /\ UNCHANGED << apiVars, daemonVars, workerVars, clock, last, faulty >>

\* start_processing: one BRPOP sweep that finds a descriptor
WorkerPop(w) ==
    /\ wsession[w] = None
    /\ \E q \in QueueNames \ {"lite_only"} : queues[q] # << >>
    /\ LET q == FirstReady(queues)
           d == Head(queues[q])
       IN  /\ queues' = [queues EXCEPT ![q] = Tail(@)]
           /\ IF d.kind = "session"
              THEN wsession' = [wsession EXCEPT ![w] = d] /\ UNCHANGED current_batch
              ELSE current_batch' = [current_batch EXCEPT ![w] = Append(@, d)]
                   /\ UNCHANGED wsession
    /\ UNCHANGED << ev, cand, ttl, max_per_home, marker, buckets, processing_jobs, jobTier, batchWaited,
                    tried, running, completions, apiVars, daemonVars, clock, last, faulty >>

\* _process_session to its end: _handle_session_success notifies per event id
WorkerFinishSession(w) ==
    /\ wsession[w] # None
    /\ Len(completions) + Len(wsession[w].event_ids) <= MaxCompletions
    /\ completions' = NotifyAll(completions, wsession[w].event_ids, TRUE)
    /\ wsession' = [wsession EXCEPT ![w] = None]
    /\ UNCHANGED << storeVars, current_batch, batchWaited, tried, running, apiVars, daemonVars, clock, last, faulty >>

\* _process_current_batch when _should_process_batch
WorkerBatch(w) ==
    /\ wsession[w] = None
    /\ should_process_batch(current_batch[w], batchWaited[w])
    /\ Len(completions) + Len(current_batch[w]) <= MaxCompletions
    /\ completions' = NotifyAll(completions, BatchIds(current_batch[w]), TRUE)
    /\ current_batch' = [current_batch EXCEPT ![w] = << >>]
    /\ batchWaited' = [batchWaited EXCEPT ![w] = FALSE]
    /\ UNCHANGED << storeVars, wsession, tried, running, apiVars, daemonVars, clock, last, faulty >>

RECURSIVE SumLen(_, _)
SumLen(f, keys) ==
    IF keys = {} THEN 0
    ELSE LET k == CHOOSE x \in keys : TRUE
         IN  Len(f[k]) + SumLen(f, keys \ {k})

\* descriptors on the queues or held by a worker
Outstanding ==
    SumLen(queues, QueueNames) + SumLen(current_batch, Workers)
    + Cardinality({w \in Workers : wsession[w] # None})

\* the pipeline stays within the model's bounds
Bounded == Outstanding <= MaxQueued

Next ==
    \/ \E d \in ApiEvents : OnNewEvent(d)
    \/ \E e \in PipelineIds, r \in LiteResults : LiteRead(e, r)
    \/ \E e \in PipelineIds : LiteAdd(e)
    \/ \E horder \in HomeOrders, err \in ErrsNow : DaemonRound(horder, err) /\ Bounded'
    \/ DaemonCleanupKeys
    \/ DaemonCleanupExists
    \/ (clock < MaxTicks /\ Tick)
    \/ \E e \in PipelineIds, tier \in ForceTiers, err \in ErrsNow : Force(e, tier, err) /\ Bounded'
    \/ \E e \in PipelineIds, err \in ErrsNow : LifeSafety(e, err) /\ Bounded'
    \/ \E e \in PipelineIds : HandleCompletion(e)
    \/ \E w \in Workers : WorkerPop(w)
    \/ \E w \in Workers : WorkerFinishSession(w)
    \/ \E w \in Workers : WorkerBatch(w)

Spec == Init /\ [][Next]_vars

SpecFaults == InitFaults /\ [][Next]_vars

---------------------------------------------------------------------------
(* Where an event is *)

\* the descriptors of a sequence that name event e
CopiesIn(seq, e) ==
    Cardinality({i \in 1..Len(seq) : \E j \in 1..Len(seq[i].event_ids) : seq[i].event_ids[j] = e})

\* the descriptors for e on the queues the workers consume
QueuedCopies(e) ==
    CopiesIn(queues["emergency"], e) + CopiesIn(queues["enterprise"], e)
    + CopiesIn(queues["premium"], e) + CopiesIn(queues["standard"], e)

\* the descriptors for e a worker holds: its session, its batch of jobs
HeldCopies(e) ==
    LET w == CHOOSE x \in Workers : TRUE
    IN  CopiesIn(current_batch[w], e)
        + (IF wsession[w] # None THEN CopiesIn(<< wsession[w] >>, e) ELSE 0)

in_store(e) == ev[e] # None \/ \E h \in Homes : e \in DOMAIN cand[h]
in_flight(e) == e \in processing_jobs
completed(e) == \E i \in 1..Len(completions) : completions[i].event_id = e

Count(b) == IF b THEN 1 ELSE 0

\* on a tier queue: any deep_processing_{tier} list
OnTierQueue(e) ==
    \E q \in {"enterprise", "premium", "standard", "lite_only"} : CopiesIn(queues[q], e) > 0

---------------------------------------------------------------------------
(* Claims about the pipeline *)

C6_EmergencyIngestPreempts ==
    [][(daemonPc = "round" /\ daemonPc' = "keys") =>
          \A e \in Ids :
              (ev[e] # None /\ ev[e].mode \in {"emergency", "alarm"} /\ ~in_flight(e))
                  => (CopiesIn(queues["emergency"], e) > 0 /\ ~OnTierQueue(e))']_vars


---------------------------------------------------------------------------
(* The life of an in-flight entry: ingest, rounds, the worker, the daemon's *)
(* clean-up, with time running on for as long as the daemon runs            *)

\* a processing:{event_id} key in its last TickSeconds expires while
\* cleanup_stale_jobs is between its KEYS and its EXISTS
MarkerExpire(e) ==
    /\ daemonPc = "exists"
    /\ marker[e] > 0
    /\ marker[e] <= TickSeconds
    /\ marker' = [marker EXCEPT ![e] = 0]
    /\ UNCHANGED << ev, cand, ttl, max_per_home, queues, buckets, processing_jobs, jobTier, apiVars,
                    daemonVars, workerVars, clock, last, faulty >>

\* the SchedulerDaemon loop moves on: round, clean-up (KEYS, then EXISTS),
\* sleep, round again.  Every step of the loop is enabled at its position
\* and only the loop's steps change the position.
DaemonLoop ==
    daemonPc' = CASE daemonPc = "round" -> "keys"
                  [] daemonPc = "keys" -> "exists"
                  [] daemonPc = "exists" -> "sleep"
                  [] OTHER -> "round"

\* the worker loop, for legacy jobs
WorkerLoop ==
    \E w \in Workers : WorkerPop(w) \/ WorkerBatch(w)

NextFlight ==
    \/ \E d \in ApiEvents : Outstanding < MaxQueued /\ OnNewEvent(d)
    \/ \E horder \in HomeOrders : DaemonRound(horder, "none")
    \/ DaemonCleanupKeys
    \/ \E e \in PipelineIds : MarkerExpire(e)
    \/ DaemonCleanupExists
    \/ Tick
    \/ \E w \in Workers : WorkerPop(w)
    \/ \E w \in Workers : WorkerBatch(w)
    \/ \E e \in PipelineIds : HandleCompletion(e)

\* the daemon and the workers keep running; nothing in the program calls
\* handle_processing_completion, so no fairness is stated for it
SpecFlight ==
    Init /\ [][NextFlight]_vars /\ WF_daemonPc(DaemonLoop) /\ WF_vars(WorkerLoop)

---------------------------------------------------------------------------
(* schedule_life_safety_event on its own: one call, on any candidate of     *)
(* LSCandidates held by the store, in any bucket state of BucketStates      *)

\* the state currently held is s
Holds(s) ==
    /\ ev = s.ev
    /\ cand = s.cand
    /\ ttl = s.ttl
    /\ max_per_home = s.cap
    /\ marker = s.marker
    /\ queues = s.queues
    /\ buckets = s.buckets
    /\ processing_jobs = s.jobs
    /\ jobTier = s.jobTier

\* an empty store and scheduler, with the given buckets
EmptyState(bs) ==
    [ ev |-> [e \in Ids |-> None], cand |-> [h \in Homes |-> << >>],
      ttl |-> NoTtl, cap |-> max_candidates_per_home,
      marker |-> [e \in Ids |-> 0], queues |-> [q \in QueueNames |-> << >>],
      buckets |-> bs, jobs |-> {}, jobTier |-> [e \in Ids |-> ""] ]

Explainers ==
    { << >>,
      << "S", "m", "o", "k", "e" >>,
      << "p", "e", "r", "s", "o", "n" >>,
      << "s", "e", "c", "o", "n", "d" >> }

\* stored candidates: as ingested, and as updated by on_lite_results
LSCandidate(m, l, p, x) ==
    LET c == create_event_candidate_from_api(
                 [event_id |-> 1, home_id |-> "h1", mode |-> m, location |-> l,
                  priority |-> p, hour |-> 12, age_min |-> 60])
    IN  IF x = << >> THEN c
        ELSE WithLiteResults(c, [explainer |-> x, person |-> FALSE, vehicle |-> FALSE])

LSCandidates ==
    { LSCandidate(m, l, p, x) :
        m \in {"security", "emergency", "alarm"}, l \in {"front_door", "backyard"},
        p \in {1, 3}, x \in Explainers }

\* every bucket empty or full, just refilled or TickSeconds ago
BucketStates ==
    { [t \in DOMAIN initialize_token_buckets |->
          [initialize_token_buckets[t] EXCEPT !.tokens60 = @ * full, !.elapsed = el]] :
        full \in {0, 1}, el \in {0, TickSeconds} }

InitLS ==
    /\ \E c \in LSCandidates, bs \in BucketStates : Holds(add_candidate(EmptyState(bs), c))
    /\ completions = << >>
    /\ daemonPc = "sleep"
    /\ cleanupKeys = {}
    /\ liteHeld = [e \in Ids |-> None]
    /\ pending = NoPending
    /\ wsession = [w \in Workers |-> None]
    /\ current_batch = [w \in Workers |-> << >>]
    /\ batchWaited = [w \in Workers |-> FALSE]
    /\ tried = [w \in Workers |-> << >>]
    /\ running = [w \in Workers |-> "running"]
    /\ clock = 0
    /\ last = NoCall
    /\ faulty = FALSE

\* schedule_life_safety_event(candidate), the call and its result recorded
LifeSafetyCall(e) ==
    /\ last.op = "none"
    /\ get_candidate(Cur, e) # None
    /\ LET c == get_candidate(Cur, e)
           r == schedule_life_safety_event(Cur, c, "none")
       IN  /\ Install(r.s)
           /\ last' = [op |-> "schedule_life_safety_event", id |-> e, ok |-> r.ok, arg |-> c]
    /\ UNCHANGED << apiVars, daemonVars, workerVars, clock, faulty >>

NextLS ==
    \/ \E e \in PipelineIds : LifeSafetyCall(e)
    \/ \E w \in Workers : WorkerPop(w)

SpecLS == InitLS /\ [][NextLS]_vars

\* a step that is a call of schedule_life_safety_event
LSStep == last.op = "none" /\ last'.op = "schedule_life_safety_event"

\* life-safety as the specification lists it: the mode, an indicator within
\* the explainer (letter case apart), a door location at priority CRITICAL
ListedLifeSafety(c) ==
    \/ c.mode \in {"emergency", "alarm"}
    \/ \E indicator \in life_safety_indicators : Contains(Lower(c.lite_explainer), indicator)
    \/ (c.location \in {"front_door", "back_door"} /\ c.priority = CRITICAL)

\* C7: schedule_life_safety_event on a life-safety candidate pushes its
\* session to deep_processing_emergency whatever the buckets hold, and the
\* call leaves every bucket (tokens, capacity, last_refill) as it was.
C7_PreemptionIgnoresBuckets ==
    [][LSStep =>
          /\ buckets' = buckets
          /\ ListedLifeSafety(last'.arg) =>
                CopiesIn(queues'["emergency"], last'.id)
                    = CopiesIn(queues["emergency"], last'.id) + 1]_vars

\* C7 witness: a life-safety session enqueued with every bucket empty
C7_Witness ==
    /\ last.op = "schedule_life_safety_event"
    /\ last.ok
    /\ \A t \in DOMAIN buckets : buckets[t].tokens60 = 0
    /\ CopiesIn(queues["emergency"], last.id) = 1

\* C8: schedule_life_safety_event(c) returns true iff c is life-safety; then
\* it has pushed exactly one session with event_ids = [c.event_id], K = 12,
\* deadline_ms = 2000 to deep_processing_emergency, added c.event_id to the
\* in-flight set and removed c from the Candidate Store; otherwise it
\* returns false and queues, in-flight set and store are unchanged.  The
\* store raises no error during the call.
C8_LifeSafetyEnqueueIff ==
    [][LSStep =>
          IF ListedLifeSafety(last'.arg)
          THEN /\ last'.ok
               /\ \A q \in QueueNames \ {"emergency"} : queues'[q] = queues[q]
               /\ Len(queues'["emergency"]) = Len(queues["emergency"]) + 1
               /\ SubSeq(queues'["emergency"], 1, Len(queues["emergency"])) = queues["emergency"]
               /\ LET d == queues'["emergency"][Len(queues'["emergency"])]
                  IN  /\ d.kind = "session"
                      /\ d.event_ids = << last'.id >>
                      /\ d.K = 12
                      /\ d.deadline_ms = 2000
               /\ processing_jobs' = processing_jobs \cup {last'.id}
               /\ \A e \in Ids : e = last'.id => ~in_store(e)'
          ELSE /\ ~last'.ok
               /\ UNCHANGED << queues, processing_jobs, ev, cand >>]_vars

\* C8 witness: a candidate that is life-safety by its explainer alone has
\* been enqueued, put in flight and removed from the store
C8_Witness ==
    /\ last.op = "schedule_life_safety_event"
    /\ last.ok
    /\ last.arg.mode = "security"
    /\ last.arg.priority = NORMAL
    /\ Len(queues["emergency"]) = 1
    /\ in_flight(last.id)
    /\ ~in_store(last.id)

---------------------------------------------------------------------------
(* Scheduling rounds over a loaded store: RoundEvents or fewer candidates   *)
(* of equal score, all of one deep tier or spread over the three, a         *)
(* started scheduler (full buckets), the daemon's loop and the time         *)

RECURSIVE AddAll(_, _)
\* add_candidate for each candidate of cs, in order
AddAll(s, cs) ==
    IF cs = << >> THEN s ELSE AddAll(add_candidate(s, Head(cs)), Tail(cs))

\* which tier each event id is submitted under
TierPlans ==
    { [e \in Ids |-> t] : t \in DeepTiers } \cup { [e \in Ids |-> DeepTierSeq[(e % 3) + 1]] }

InitRound ==
    /\ \E plan \in TierPlans, n \in 0..RoundEvents :
          Holds(AddAll(EmptyState(initialize_token_buckets),
                       [e \in 1..n |-> DirectCandidate(e, plan[e])]))
    /\ completions = << >>
    /\ daemonPc = "round"
    /\ cleanupKeys = {}
    /\ liteHeld = [e \in Ids |-> None]
    /\ pending = NoPending
    /\ wsession = [w \in Workers |-> None]
    /\ current_batch = [w \in Workers |-> << >>]
    /\ batchWaited = [w \in Workers |-> FALSE]
    /\ tried = [w \in Workers |-> << >>]
    /\ running = [w \in Workers |-> "running"]
    /\ clock = 0
    /\ last = NoCall
    /\ faulty = FALSE

\* SchedulerDaemon.start: schedule_round, its stats recorded
RoundCall(horder) ==
    /\ daemonPc = "round"
    /\ LET r == schedule_round(Cur, horder, "none")
       IN  /\ Install(r.s)
           /\ last' = [op |-> "schedule_round", id |-> 0, ok |-> TRUE, arg |-> r.stats]
    /\ daemonPc' = "keys"
    /\ UNCHANGED << cleanupKeys, apiVars, workerVars, clock, faulty >>

NextRound ==
    \/ \E horder \in HomeOrders : RoundCall(horder)
    \/ DaemonCleanupKeys
    \/ DaemonCleanupExists
    \/ (clock < MaxTicks /\ Tick)
    \/ \E e \in PipelineIds, t \in DeepTiers :
          /\ in_flight(e) /\ ~in_store(e) /\ TierName(t) = jobTier[e]
          /\ AddCandidate(DirectCandidate(e, t))

SpecRound == InitRound /\ [][NextRound]_vars

\* a step that is a scheduling round
RoundStep == daemonPc = "round" /\ daemonPc' = "keys" /\ last'.op = "schedule_round"

\* whole tokens a tier's bucket holds once refilled for the time elapsed
WholeTokens(t) ==
    Min(buckets[t].capacity * 60, buckets[t].tokens60 + buckets[t].elapsed * buckets[t].rate60) \div 60

\* stored candidates of a tier that are not in flight (all are fetched: the
\* store holds fewer than top_k_limit)
Fresh(t) ==
    {e \in Ids : in_store(e) /\ ev[e] # None /\ ev[e].processing_tier = t /\ ~in_flight(e)}

\* the in-flight events scheduled to a tier's queue
InFlightOf(t) == {e \in processing_jobs : jobTier[e] = TierName(t)}

---------------------------------------------------------------------------
(* The token buckets of a scheduler whose backlog stands at or just above   *)
(* autothrottle_threshold: the daemon's rounds (each one throttling while   *)
(* the backlog is above the threshold), the sleep between them, and single  *)
(* calls of TokenBucket.consume                                              *)

MaxTokensNeeded == 1

\* in-flight events of earlier rounds whose completion never reached the
\* scheduler: n ids outside Ids, none with a marker.  The scheduler has run
\* for MaxTicks ticks or more (the clock starts saturated) and has been idle
\* long enough for its buckets to be full.
Backlog(n) == (NumIds + 1)..(NumIds + n)

InitThrottle ==
    /\ \E n \in {autothrottle_threshold, autothrottle_threshold + 1} :
          Holds([EmptyState(initialize_token_buckets) EXCEPT !.jobs = Backlog(n)])
    /\ completions = << >>
    /\ daemonPc = "round"
    /\ cleanupKeys = {}
    /\ liteHeld = [e \in Ids |-> None]
    /\ pending = NoPending
    /\ wsession = [w \in Workers |-> None]
    /\ current_batch = [w \in Workers |-> << >>]
    /\ batchWaited = [w \in Workers |-> FALSE]
    /\ tried = [w \in Workers |-> << >>]
    /\ running = [w \in Workers |-> "running"]
    /\ clock = MaxTicks
    /\ last = NoCall
    /\ faulty = FALSE

\* token_buckets[tier].consume(tokens_needed)
ConsumeCall(t, tokens_needed) ==
    /\ LET r == consume(buckets[t], tokens_needed)
       IN  /\ buckets' = [buckets EXCEPT ![t] = r.b]
           /\ last' = [op |-> "consume", id |-> t, ok |-> r.ok, arg |-> tokens_needed]
    /\ UNCHANGED << ev, cand, ttl, max_per_home, marker, queues, processing_jobs, jobTier, daemonVars,
                    apiVars, workerVars, clock, faulty >>

NextThrottle ==
    \/ \E horder \in HomeOrders : RoundCall(horder)
    \/ DaemonCleanupKeys
    \/ DaemonCleanupExists
    \/ Tick
    \/ \E t \in DeepTiers, n \in 1..MaxTokensNeeded : ConsumeCall(t, n)

SpecThrottle == InitThrottle /\ [][NextThrottle]_vars

\* a step that is one call of consume
ConsumeStep == last'.op = "consume" /\ daemonPc' = daemonPc

\* a step that is a round which autothrottled
ThrottleStep == RoundStep /\ last'.arg.autothrottled

\* the tokens (in sixtieths) a bucket holds once refilled for the time elapsed
Refilled(b) == Min(b.capacity * 60, b.tokens60 + b.elapsed * b.rate60)

BucketsWithinCapacity ==
    \A t \in DOMAIN buckets :
        /\ buckets[t].tokens60 >= 0
        /\ buckets[t].tokens60 <= buckets[t].capacity * 60
        /\ buckets[t].elapsed >= 0

\* C11: before and after every operation on the buckets (a consume that
\* succeeds or fails, the refill it starts with, an autothrottle) every
\* bucket holds no fewer than 0 and no more than capacity tokens, the time
\* since its last refill never negative; a consume that fails leaves the
\* refilled tokens as they are, one that succeeds takes exactly
\* tokens_needed.
C11_TokensWithinCapacity ==
    [][/\ BucketsWithinCapacity
       /\ BucketsWithinCapacity'
       /\ ConsumeStep =>
             LET t == last'.id
             IN  /\ ~last'.ok => buckets'[t].tokens60 = Refilled(buckets[t])
                 /\ last'.ok => buckets'[t].tokens60 = Refilled(buckets[t]) - last'.arg * 60]_vars

\* C11 witness: a consume has failed on a throttled bucket that holds a
\* token
C11_Witness ==
    /\ last.op = "consume"
    /\ ~last.ok
    /\ buckets[last.id].tokens60 > 0
    /\ buckets[last.id].capacity < tier_limits(last.id)

\* C12: after any autothrottle, the first or a repeated one, every tier's
\* bucket has a capacity of min_best_effort_k or more.
C12_CapacityFloor ==
    [][ThrottleStep => \A t \in DOMAIN buckets : buckets'[t].capacity >= min_best_effort_k]_vars

\* C13: a round that autothrottles sets every bucket's capacity to
\* max(5, floor(capacity * 0.6)) and clamps its tokens to the new capacity;
\* from the default allowances 2, 7 and 32 the first such round gives
\* STANDARD 5, PREMIUM 5 and ENTERPRISE 19.
C13_ThrottleSetsCapacity ==
    [][ThrottleStep =>
          /\ \A t \in DOMAIN buckets :
                /\ buckets'[t].capacity = Max(5, (buckets[t].capacity * 6) \div 10)
                /\ buckets'[t].tokens60 <= buckets'[t].capacity * 60
          /\ (\A t \in DOMAIN buckets : buckets[t].capacity = tier_limits(t)) =>
                /\ buckets'[STANDARD].capacity = 5
                /\ buckets'[PREMIUM].capacity = 5
                /\ buckets'[ENTERPRISE].capacity = 19]_vars

\* C14: in every reachable state a bucket refills at capacity / 60 tokens a
\* second, also once autothrottle has lowered its capacity.
C14_RateFollowsCapacity ==
    \A t \in DOMAIN buckets : buckets[t].rate60 = buckets[t].capacity

---------------------------------------------------------------------------
(* The candidate store on its own: a store that keeps StoreCap candidates   *)
(* per home; adds of candidates of StoreIds ids under home h2, and of the   *)
(* first id under h1 as well, each at two scores; removals (as scheduling   *)
(* makes them).  SpecStore stays within the TTL of the keys, SpecStoreTtl   *)
(* lets time pass in steps of half the TTL.                                 *)

StoreCap == 2
StoreIds == 3

TtlStep == candidate_ttl \div 2

\* a candidate of event e submitted under home h, a person detected or not
StoreCandidate(e, h, person) ==
    [DirectCandidate(e, STANDARD) EXCEPT !.home_id = h, !.person_detected = person]

StoreCandidates ==
    { StoreCandidate(e, "h2", p) : e \in 1..StoreIds, p \in BOOLEAN }
    \cup { StoreCandidate(1, "h1", p) : p \in BOOLEAN }

InitStore ==
    /\ Holds([EmptyState(initialize_token_buckets) EXCEPT !.cap = StoreCap])
    /\ completions = << >>
    /\ daemonPc = "round"
    /\ cleanupKeys = {}
    /\ liteHeld = [e \in Ids |-> None]
    /\ pending = NoPending
    /\ wsession = [w \in Workers |-> None]
    /\ current_batch = [w \in Workers |-> << >>]
    /\ batchWaited = [w \in Workers |-> FALSE]
    /\ tried = [w \in Workers |-> << >>]
    /\ running = [w \in Workers |-> "running"]
    /\ clock = 0
    /\ last = NoCall
    /\ faulty = FALSE

\* the members of home h's index, the added id among them, that the add
\* which led from s to t put out of it
Evicted(s, t, h, e) == ((DOMAIN s.cand[h]) \cup {e}) \ DOMAIN t.cand[h]

\* add_candidate(candidate), the call and what it put out of the index
\* recorded
AddCall(c) ==
    /\ LET t == add_candidate(Cur, c)
       IN  /\ Install(t)
           /\ last' = [op |-> "add_candidate", id |-> c.event_id, ok |-> TRUE,
                       arg |-> Evicted(Cur, t, c.home_id, c.event_id)]
    /\ UNCHANGED << apiVars, daemonVars, workerVars, clock, faulty >>

\* remove_candidate(event_id, home_id) of a stored candidate
RemoveCall(e) ==
    /\ ev[e] # None
    /\ Install(remove_candidate(Cur, e, ev[e].home_id, "none"))
    /\ UNCHANGED << apiVars, daemonVars, workerVars, clock, last, faulty >>

\* the keys whose TTL runs out within the next TtlStep seconds
Expiring(t) == {k \in DOMAIN t : t[k] > 0 /\ t[k] <= TtlStep}

\* TtlStep seconds pass: every TTL runs down, a key whose TTL runs out is
\* deleted by the key-value store
StoreTick ==
    /\ ttl' = [ev |-> [e \in Ids |-> Max(0, ttl.ev[e] - TtlStep)],
               cand |-> [h \in Homes |-> Max(0, ttl.cand[h] - TtlStep)]]
    /\ ev' = [e \in Ids |-> IF e \in Expiring(ttl.ev) THEN None ELSE ev[e]]
    /\ cand' = [h \in Homes |-> IF h \in Expiring(ttl.cand) THEN << >> ELSE cand[h]]
    /\ UNCHANGED << max_per_home, marker, queues, buckets, processing_jobs, jobTier,
                    apiVars, daemonVars, workerVars, clock, last, faulty >>

NextStore ==
    \/ \E c \in StoreCandidates : AddCall(c)
    \/ \E e \in 1..StoreIds : RemoveCall(e)

SpecStore == InitStore /\ [][NextStore]_vars

NextStoreTtl ==
    \/ \E c \in StoreCandidates : AddCall(c)
    \/ \E e \in 1..StoreIds : RemoveCall(e)
    \/ StoreTick

SpecStoreTtl == InitStore /\ [][NextStoreTtl]_vars

\* C15: after every completed add_candidate, whatever the adds before it
\* (new ids, ids already stored, ids stored under one home and added under
\* another), the index of every home holds max_candidates_per_home entries
\* or fewer.
C15_IndexWithinCap ==
    \A h \in Homes : Cardinality(DOMAIN cand[h]) <= max_per_home

\* the lowest score in a non-empty ordered set
LowestScore(f) == CHOOSE v \in {f[x] : x \in DOMAIN f} : \A x \in DOMAIN f : v <= f[x]

\* candidate c is new to the store (no record, no index entry under its
\* home), its home's index is at the cap, and its score is above the lowest
\* of the index
NewAtCap(c) ==
    /\ ev[c.event_id] = None
    /\ c.event_id \notin DOMAIN cand[c.home_id]
    /\ Cardinality(DOMAIN cand[c.home_id]) = max_per_home
    /\ calculate_score(c) > LowestScore(cand[c.home_id])

\* C16: when a home's index is at the cap, adding a new event whose score is
\* above the lowest in the index evicts exactly one entry, one of the lowest
\* score, and deletes that event's record; the new event is stored and
\* indexed at its score, the other entries stay as they were.
C16_EvictsLowest ==
    [][\A c \in StoreCandidates :
          AddCall(c) /\ NewAtCap(c) =>
             LET h == c.home_id
             IN  \E x \in DOMAIN cand[h] :
                    /\ cand[h][x] = LowestScore(cand[h])
                    /\ DOMAIN cand'[h] = ((DOMAIN cand[h]) \ {x}) \cup {c.event_id}
                    /\ ev'[x] = None
                    /\ ev'[c.event_id] = c
                    /\ cand'[h][c.event_id] = calculate_score(c)
                    /\ \A y \in (DOMAIN cand[h]) \ {x} : cand'[h][y] = cand[h][y]]_vars

\* C16 witness: an add has put one entry out of an index at the cap, the
\* added event is stored and indexed above the scores that remain, the
\* evicted event has no record
C16_Witness ==
    /\ last.op = "add_candidate"
    /\ Cardinality(last.arg) = 1
    /\ last.id \notin last.arg
    /\ ev[last.id] # None
    /\ LET h == ev[last.id].home_id
       IN  /\ last.id \in DOMAIN cand[h]
           /\ Cardinality(DOMAIN cand[h]) = max_per_home
           /\ \E y \in DOMAIN cand[h] : cand[h][y] < cand[h][last.id]
           /\ \A x \in last.arg : ev[x] = None /\ x \notin DOMAIN cand[h]

\* the index entries (home, member) and the ids with a record
IndexEntries == {<<h, x>> \in Homes \X Ids : x \in DOMAIN cand[h]}
StoredRecords == {e \in Ids : ev[e] # None}

\* C17: add_candidate for an event_id that is already in the store leaves
\* the number of index entries and the number of records as they were and
\* changes nothing but that event's score in the index, which afterwards is
\* the score of this add.
C17_IdempotentAdd ==
    [][\A c \in StoreCandidates :
          AddCall(c) /\ ev[c.event_id] # None =>
             /\ Cardinality(IndexEntries') = Cardinality(IndexEntries)
             /\ StoredRecords' = StoredRecords
             /\ ev' = ev
             /\ cand'[c.home_id][c.event_id] = calculate_score(c)
             /\ \A h \in Homes : \A x \in DOMAIN cand[h] :
                   x # c.event_id => x \in DOMAIN cand'[h] /\ cand'[h][x] = cand[h][x]]_vars

\* C19: once the 24 h TTL of a stored (so unscheduled) event runs out,
\* the event is no longer present in the store: neither its record nor its
\* member in the index of any home remains, also when other events were
\* added to the same home in the meantime.
C19_ExpiredEventLeavesStore ==
    [][StoreTick =>
          \A e \in Expiring(ttl.ev) :
             /\ ev'[e] = None
             /\ \A h \in Homes : e \notin DOMAIN cand'[h]]_vars

RECURSIVE EventIds(_)
\* the event ids of a sequence of candidates
EventIds(cs) == IF cs = << >> THEN << >> ELSE << Head(cs).event_id >> \o EventIds(Tail(cs))

\* stored candidates of one home that have the same score, a and b, with a
\* the smaller id
EqualScorePairs ==
    { p \in (Homes \X Ids) \X Ids :
         LET h == p[1][1]
             a == p[1][2]
             b == p[2]
         IN  /\ a < b
             /\ a \in DOMAIN cand[h] /\ b \in DOMAIN cand[h]
             /\ cand[h][a] = cand[h][b]
             /\ ev[a] # None /\ ev[b] # None
             /\ calculate_score(ev[a]) = calculate_score(ev[b])
             /\ ev[a].processing_tier = ev[b].processing_tier }

\* the position of id e in a sequence of ids (0 when absent)
PositionOf(ids, e) ==
    IF \E i \in 1..Len(ids) : ids[i] = e
    THEN CHOOSE i \in 1..Len(ids) : ids[i] = e /\ \A j \in 1..(i - 1) : ids[j] # e
    ELSE 0

\* C20: candidates of one home with the same score are ordered by id: when
\* the two top candidates of a home tie, get_top_candidates(home, 1)
\* returns the one with the smaller event_id, and the candidates a round
\* fetches for a tier hold two of equal score with the smaller id first.
C20_TieBreakById ==
    \A p \in EqualScorePairs :
        LET h == p[1][1]
            a == p[1][2]
            b == p[2]
            fetched == EventIds(get_candidates_by_tier(Cur, ev[a].processing_tier, top_k_limit,
                                                       << "h1", "h2" >>))
        IN  /\ cand[h][a] = cand[h][zrevrange(cand[h], 1)[1]] =>
               EventIds(get_top_candidates(Cur, h, 1)) = << a >>
            /\ PositionOf(fetched, a) < PositionOf(fetched, b)

---------------------------------------------------------------------------
(* The candidate store over a key-value store that may raise at a command   *)
(* of add_candidate, within the TTL of its keys                             *)

InitStoreFaults ==
    /\ Holds([EmptyState(initialize_token_buckets) EXCEPT !.cap = StoreCap])
    /\ completions = << >>
    /\ daemonPc = "round"
    /\ cleanupKeys = {}
    /\ liteHeld = [e \in Ids |-> None]
    /\ pending = NoPending
    /\ wsession = [w \in Workers |-> None]
    /\ current_batch = [w \in Workers |-> << >>]
    /\ batchWaited = [w \in Workers |-> FALSE]
    /\ tried = [w \in Workers |-> << >>]
    /\ running = [w \in Workers |-> "running"]
    /\ clock = 0
    /\ last = NoCall
    /\ faulty = TRUE

\* add_candidate(candidate) that returns False, the command err having raised
AddFailing(c, err) ==
    /\ faulty
    /\ LET r == add_candidate_result(Cur, c, err)
       IN  /\ ~r.ok
           /\ Install(r.s)
           /\ last' = [op |-> "add_candidate", id |-> c.event_id, ok |-> FALSE, arg |-> err]
    /\ UNCHANGED << apiVars, daemonVars, workerVars, clock, faulty >>

NextStoreFaults ==
    \/ \E c \in StoreCandidates : AddCall(c)
    \/ \E c \in StoreCandidates, err \in AddErrs : AddFailing(c, err)
    \/ \E e \in 1..StoreIds : RemoveCall(e)

SpecStoreFaults == InitStoreFaults /\ [][NextStoreFaults]_vars

\* event e has a record and no index entry; an index entry and no record
RecordOnly(e) == ev[e] # None /\ \A h \in Homes : e \notin DOMAIN cand[h]
IndexOnly(e) == ev[e] = None /\ \E h \in Homes : e \in DOMAIN cand[h]

\* C18: an add_candidate that returns False, whichever command raised,
\* leaves no partial insert: no event has a record without an index entry,
\* or an index entry without a record, that it did not have before the call.
C18_FailedAddLeavesNothing ==
    [][\A c \in StoreCandidates, err \in AddErrs :
          AddFailing(c, err) =>
             \A e \in Ids : /\ RecordOnly(e)' => RecordOnly(e)
                            /\ IndexOnly(e)' => IndexOnly(e)]_vars

---------------------------------------------------------------------------
(* deep_worker_v2.py: one worker on its own.  Descriptors arrive on the     *)
(* queues; the worker's loop tries the queues one BRPOP at a time, runs     *)
(* _process_session on a session and collects legacy jobs into its batch.   *)
(* Time within a call is counted in whole milliseconds.                     *)

MaxWorkerCompletions == 12

\* JSON null in a descriptor: arithmetic on it raises TypeError
Null == 0 - 1

\* what happens while a session or a batch is handled: the key-value store
\* raises at SETEX of the result, or at every LPUSH
WorkerErrs == {"none", "setex", "lpush"}

\* a variant of the deadline test that also stops at exactly 80%
approaching_deadline_at(elapsed_ms, deadline_ms) == elapsed_ms * 10 >= deadline_ms * 8

\* _process_session, the test before each event:
\* elapsed_ms > deadline_seconds * 1000 * 0.8
approaching_deadline(elapsed_ms, deadline_ms) == elapsed_ms * 10 > deadline_ms * 8

RECURSIVE SessionLoop(_, _, _, _, _, _)
\* the loop of _process_session over n events still to be processed, the
\* clock standing at elapsed ms: how many events were processed, and the
\* elapsed time at which the last of them was started (Null when none)
SessionLoop(n, elapsed, deadline_ms, event_ms, processed, last_start) ==
    IF n = 0 \/ approaching_deadline(elapsed, deadline_ms)
    THEN [processed |-> processed, last_start |-> last_start]
    ELSE SessionLoop(n - 1, elapsed + event_ms, deadline_ms, event_ms, processed + 1, elapsed)

\* _process_session(session) up to its SessionResult, the first deadline
\* check made setup_ms after the start and every event taking event_ms
process_session(d, setup_ms, event_ms) ==
    IF d.deadline_ms = Null
    THEN [success |-> FALSE, error_message |-> "TypeError", processed |-> 0, last_start |-> Null]
    ELSE LET events_to_process == Take(d.event_ids, d.K)
             loop == SessionLoop(Len(events_to_process), setup_ms, d.deadline_ms, event_ms, 0, Null)
         IN  [success |-> TRUE, error_message |-> "", processed |-> loop.processed,
              last_start |-> loop.last_start]

\* _handle_session_success and _handle_session_failure: the completion list
\* afterwards, the records pushed to digest_queue, whether the result was
\* stored.  Each handler and each _notify_scheduler_completion catches what
\* the store raises and goes on.
handle_session(cs, d, success, err) ==
    IF err = "setex" THEN [completions |-> cs, digests |-> 0, stored |-> FALSE]
    ELSE IF err = "lpush" THEN [completions |-> cs, digests |-> 0, stored |-> TRUE]
    ELSE [completions |-> NotifyAll(cs, d.event_ids, success),
          digests |-> IF success THEN 1 ELSE 0, stored |-> TRUE]

\* the sessions and the legacy job that arrive: the session of a life-safety
\* preemption; ten events under a deadline of a second; two events with
\* K = 1; an event with a deadline of a millisecond; a session whose
\* deadline_ms is null; a legacy job
SessionOf(ids, tname, K, deadline_ms) ==
    [ kind |-> "session", event_ids |-> ids, home_id |-> "h1", tier |-> tname,
      K |-> K, deadline_ms |-> deadline_ms, mode |-> "", lite_results |-> FALSE ]

WorkerInputs ==
    { LifeSafetySession(DirectCandidate(1, STANDARD)),
      SessionOf([i \in 1..10 |-> i], "premium", 10, 1000),
      SessionOf(<< 1, 2 >>, "standard", 1, 1000),
      SessionOf(<< 1 >>, "enterprise", 1, 1),
      SessionOf(<< 1 >>, "standard", 1, Null),
      JobData(DirectCandidate(1, STANDARD), STANDARD) }

SetupMs == {0, 1}
EventMs == {100, 150, 200}

InitWorker ==
    /\ Holds(EmptyState(initialize_token_buckets))
    /\ completions = << >>
    /\ daemonPc = "round"
    /\ cleanupKeys = {}
    /\ liteHeld = [e \in Ids |-> None]
    /\ pending = NoPending
    /\ wsession = [w \in Workers |-> None]
    /\ current_batch = [w \in Workers |-> << >>]
    /\ batchWaited = [w \in Workers |-> FALSE]
    /\ tried = [w \in Workers |-> << >>]
    /\ running = [w \in Workers |-> "running"]
    /\ clock = 0
    /\ last = NoCall
    /\ faulty = TRUE

\* a descriptor is pushed to the queue of its tier; the model stops the
\* arrivals once a completion has been pushed
Arrive(d) ==
    /\ Outstanding < MaxQueued
    /\ completions = << >>
    /\ queues' = [queues EXCEPT ![d.tier] = Append(@, d)]
    /\ UNCHANGED << ev, cand, ttl, max_per_home, marker, buckets, processing_jobs, jobTier,
                    apiVars, daemonVars, workerVars, clock, last, faulty >>

\* a variant of the sweep that goes on to the next queue after a find
next_tried_no_restart(t, q, found) ==
    IF Len(t) + 1 = Len(queue_names) THEN << >> ELSE Append(t, q)

\* start_processing, the for loop: after a find the loop breaks and the next
\* iteration starts with the first queue; after a timeout the next queue is
\* tried, the first one again after the last
next_tried(t, q, found) ==
    IF found \/ Len(t) + 1 = Len(queue_names) THEN << >> ELSE Append(t, q)

\* start_processing: one BRPOP, on the queue the sweep has come to
WorkerTry(w) ==
    /\ wsession[w] = None
    /\ running[w] # "exited"
    /\ tried[w] = << >> => running[w] = "running"
    /\ ~(tried[w] = << >> /\ should_process_batch(current_batch[w], batchWaited[w]))
    /\ LET q == queue_names[Len(tried[w]) + 1]
           found == queues[q] # << >>
       IN  /\ tried' = [tried EXCEPT ![w] = next_tried(tried[w], q, found)]
           /\ last' = [op |-> "brpop", id |-> 0, ok |-> found, arg |-> q]
           /\ IF ~found THEN UNCHANGED << queues, wsession, current_batch >>
              ELSE /\ queues' = [queues EXCEPT ![q] = Tail(@)]
                   /\ IF Head(queues[q]).kind = "session"
                      THEN wsession' = [wsession EXCEPT ![w] = Head(queues[q])]
                           /\ UNCHANGED current_batch
                      ELSE current_batch' = [current_batch EXCEPT ![w] = Append(@, Head(queues[q]))]
                           /\ UNCHANGED wsession
    /\ UNCHANGED << ev, cand, ttl, max_per_home, marker, buckets, processing_jobs, jobTier,
                    batchWaited, running, completions, apiVars, daemonVars, clock, faulty >>

\* _process_session(session) of the session taken, to its end
ProcessSession(w, setup_ms, event_ms, err) ==
    /\ wsession[w] # None
    /\ Len(completions) + Len(wsession[w].event_ids) <= MaxWorkerCompletions
    /\ LET d == wsession[w]
           r == process_session(d, setup_ms, event_ms)
           h == handle_session(completions, d, r.success, err)
       IN  /\ completions' = h.completions
           /\ last' = [op |-> "process_session", id |-> d.event_ids[1], ok |-> r.success,
                       arg |-> [session |-> d, error_message |-> r.error_message,
                                processed |-> r.processed, last_start |-> r.last_start,
                                setup_ms |-> setup_ms, event_ms |-> event_ms,
                                pushed |-> Len(h.completions) - Len(completions),
                                digests |-> h.digests, stored |-> h.stored, err |-> err]]
    /\ wsession' = [wsession EXCEPT ![w] = None]
    /\ UNCHANGED << storeVars, current_batch, batchWaited, tried, running, apiVars, daemonVars, clock, faulty >>

\* how the processing of a legacy job goes: well, or the image cannot be
\* downloaded, or the processing raises
JobOutcomes == {"ok", "download", "processing"}

\* _process_single_job(job): every exception is caught and turned into a
\* ProcessingResult that is returned
process_single_job(job, outcome) ==
    [ event_id |-> job.event_ids[1], success |-> outcome = "ok",
      error_message |-> IF outcome = "ok" THEN ""
                        ELSE IF outcome = "download" THEN "Failed to download image"
                        ELSE "processing error",
      raised |-> FALSE ]

\* _handle_job_success(job, result) and _handle_job_failure(job, message) on
\* the tally t of completions, digest records and counters
handle_job(t, job, is_exception, err) ==
    LET counted == [t EXCEPT !.successful = @ + (IF is_exception THEN 0 ELSE 1),
                             !.failed = @ + (IF is_exception THEN 1 ELSE 0)]
    IN  IF err = "setex" THEN counted
        ELSE IF err = "lpush" THEN counted
        ELSE [counted EXCEPT
                 !.completions = Append(@, [event_id |-> job.event_ids[1], success |-> ~is_exception]),
                 !.digests = IF is_exception THEN @ ELSE Append(@, job.event_ids[1])]

RECURSIVE BatchResults(_, _, _, _, _)
\* _process_current_batch, the loop over the gathered results from job i on
BatchResults(t, batch, outcomes, err, i) ==
    IF i > Len(batch) THEN t
    ELSE BatchResults(handle_job(t, batch[i], process_single_job(batch[i], outcomes[i]).raised, err),
                      batch, outcomes, err, i + 1)

\* _process_current_batch
process_current_batch(cs, batch, outcomes, err) ==
    BatchResults([completions |-> cs, digests |-> << >>, successful |-> 0, failed |-> 0],
                 batch, outcomes, err, 1)

\* _process_current_batch at the end of a loop iteration, when
\* _should_process_batch
ProcessBatch(w, outcomes, err) ==
    /\ wsession[w] = None
    /\ tried[w] = << >>
    /\ should_process_batch(current_batch[w], batchWaited[w])
    /\ DOMAIN outcomes = 1..Len(current_batch[w])
    /\ Len(completions) + Len(current_batch[w]) <= MaxWorkerCompletions
    /\ LET t == process_current_batch(completions, current_batch[w], outcomes, err)
       IN  /\ completions' = t.completions
           /\ last' = [op |-> "process_batch", id |-> current_batch[w][1].event_ids[1], ok |-> TRUE,
                       arg |-> [batch |-> current_batch[w], outcomes |-> outcomes,
                                before |-> Len(completions), digests |-> t.digests,
                                successful |-> t.successful, failed |-> t.failed, err |-> err]]
    /\ current_batch' = [current_batch EXCEPT ![w] = << >>]
    /\ batchWaited' = [batchWaited EXCEPT ![w] = FALSE]
    /\ UNCHANGED << storeVars, wsession, tried, running, apiVars, daemonVars, clock, faulty >>

\* max_batch_wait_time goes by since the last batch
WorkerWait(w) ==
    /\ ~batchWaited[w]
    /\ batchWaited' = [batchWaited EXCEPT ![w] = TRUE]
    /\ UNCHANGED << storeVars, wsession, current_batch, tried, running, completions, apiVars, daemonVars,
                    clock, last, faulty >>

BatchOutcomes == UNION {[1..n -> JobOutcomes] : n \in 1..MaxQueued}

NextWorker ==
    \/ \E d \in WorkerInputs : Arrive(d)
    \/ \E w \in Workers : WorkerTry(w)
    \/ \E w \in Workers, setup_ms \in SetupMs, event_ms \in EventMs, err \in WorkerErrs :
           ProcessSession(w, setup_ms, event_ms, err)
    \/ \E w \in Workers, outcomes \in BatchOutcomes, err \in WorkerErrs : ProcessBatch(w, outcomes, err)
    \/ \E w \in Workers : WorkerWait(w)

SpecWorker == InitWorker /\ [][NextWorker]_vars

---------------------------------------------------------------------------
(* Claims about the worker's sessions *)

\* the call just made was _process_session
SessionDone == last.op = "process_session"

\* the completion records the call just made pushed
PushedNow ==
    SubSeq(completions, Len(completions) - last.arg.pushed + 1, Len(completions))

\* C21: whatever the outcome of a session a worker took (success, cut short
\* by the deadline, a session-level exception, a store error while the
\* result is persisted), exactly one completion record is pushed for each of
\* its event_ids, those not processed because of K or the deadline included.
\* (A store that refuses the pushes themselves is left aside.)
C21_OneCompletionPerEvent ==
    SessionDone /\ last.arg.err # "lpush" =>
        [i \in 1..Len(PushedNow) |-> PushedNow[i].event_id] = last.arg.session.event_ids

\* the session just processed was well formed and none of its events was
\* started, the deadline having passed at the first test
NoneProcessedForDeadline ==
    /\ SessionDone
    /\ last.arg.session.deadline_ms # Null
    /\ last.arg.session.K > 0
    /\ last.arg.processed = 0

\* C22: a session in which no event was processed because the deadline had
\* already passed yields success = false and the error_message
\* "deadline-exceeded".
C22_DeadlineExceededFails ==
    NoneProcessedForDeadline =>
        /\ ~last.ok
        /\ last.arg.error_message = "deadline-exceeded"

\* the session just processed was well formed
WellFormedDone ==
    /\ SessionDone
    /\ last.arg.session.deadline_ms # Null

\* the elapsed time at which the loop of the session just processed ended
LoopEnd == last.arg.setup_ms + last.arg.processed * last.arg.event_ms

\* the spec's example: K = 10, a deadline of 1000 ms, 150 ms per event
SoftDeadlineExample ==
    /\ last.arg.session.K = 10
    /\ Len(last.arg.session.event_ids) = 10
    /\ last.arg.session.deadline_ms = 1000
    /\ last.arg.event_ms = 150

\* C23, as the spec states it: no further event is started once the elapsed
\* time is at least 80% of deadline_ms; a session with at least one processed
\* event is a success; in the example five or six events are processed.
C23_SoftDeadline ==
    WellFormedDone =>
        /\ last.arg.processed >= 1 =>
              /\ last.arg.last_start * 10 < last.arg.session.deadline_ms * 8
              /\ last.ok
        /\ SoftDeadlineExample => last.arg.processed \in 5..6

\* C23, amended: an event is started as long as the elapsed time is at most
\* 80% of deadline_ms and events up to K remain, and none once it is more
\* than 80%; a session with at least one processed event is a success; in
\* the example five or six events are processed.
C23_SoftDeadlineStrict ==
    WellFormedDone =>
        /\ last.arg.processed >= 1 =>
              /\ last.arg.last_start * 10 <= last.arg.session.deadline_ms * 8
              /\ last.ok
        /\ last.arg.processed < Len(Take(last.arg.session.event_ids, last.arg.session.K)) =>
              LoopEnd * 10 > last.arg.session.deadline_ms * 8
        /\ SoftDeadlineExample => last.arg.processed \in 5..6

\* a session of ten events cut short by the deadline, its fifth event
\* started at exactly 80% of the deadline
C23_Witness ==
    /\ WellFormedDone
    /\ last.arg.session.deadline_ms = 1000
    /\ last.arg.processed = 5
    /\ last.arg.last_start = 800
    /\ last.ok

\* C29: each completed session, successful or failed, results in exactly one
\* record pushed to digest_queue, carrying its session_id.  (The store
\* raising nothing.)
C29_OneDigestPerSession ==
    SessionDone /\ last.arg.err = "none" => last.arg.digests = 1

\* the call just made was _process_current_batch, the store raising nothing
BatchDone == last.op = "process_batch" /\ last.arg.err = "none"

\* the jobs of the batch just processed whose processing did not succeed
FailedJobs == {i \in 1..Len(last.arg.batch) : last.arg.outcomes[i] # "ok"}

\* C30: on the legacy job path the completion of a job carries success = true
\* exactly when that job's processing succeeded; a job whose download or
\* processing failed is reported with success = false, is counted as failed
\* and produces no digest record.
C30_JobCompletionTellsOutcome ==
    BatchDone =>
        /\ \A i \in 1..Len(last.arg.batch) :
              /\ completions[last.arg.before + i].event_id = last.arg.batch[i].event_ids[1]
              /\ completions[last.arg.before + i].success = (last.arg.outcomes[i] = "ok")
        /\ last.arg.failed = Cardinality(FailedJobs)
        /\ Len(last.arg.digests) = Len(last.arg.batch) - Cardinality(FailedJobs)

---------------------------------------------------------------------------
(* Claims about the worker's loop *)

\* the queues before q in the order of queue_names
QueuesBefore(q) ==
    SubSeq(queue_names, 1, (CHOOSE i \in 1..Len(queue_names) : queue_names[i] = q) - 1)

\* C25: in every iteration of the worker's loop the queues are tried in the
\* fixed order emergency, enterprise, premium, standard: the worker takes a
\* descriptor from a queue only after its pop attempts, in the same
\* iteration, on the emergency queue and on every queue before that one
\* returned nothing, and after taking one descriptor its next attempt is on
\* the emergency queue again.
C25_EmergencyFirst ==
    [][\A w \in Workers :
          WorkerTry(w) =>
             /\ last'.arg = queue_names[Len(tried[w]) + 1]
             /\ tried[w] = QueuesBefore(last'.arg)
             /\ last'.ok => tried'[w] = << >>
             /\ last'.ok /\ last'.arg # "emergency" => tried[w][1] = "emergency"]_vars

\* a descriptor was taken from the premium queue, the emergency queue having
\* been found empty earlier in the iteration and holding a descriptor now
C25_Witness ==
    /\ last.op = "brpop"
    /\ last.ok
    /\ last.arg = "premium"
    /\ queues["emergency"] # << >>
    /\ \A w \in Workers : tried[w] = << >>

---------------------------------------------------------------------------
(* Claims about what the scheduler places on the queues *)

\* the descriptors on the deep-processing queues
Queued == UNION {{queues[q][i] : i \in 1..Len(queues[q])} : q \in QueueNames}

\* C24: every descriptor the scheduler places on a deep-processing queue, in
\* a round, by force_schedule_event or for a life-safety event, is a session
\* with 0 < K <= |event_ids| and deadline_ms > 0.
C24_QueuedAreSessions ==
    \A d \in Queued :
        /\ d.kind = "session"
        /\ 0 < d.K /\ d.K <= Len(d.event_ids)
        /\ d.deadline_ms > 0

---------------------------------------------------------------------------
(* force_schedule_event on its own: a store that holds one candidate or     *)
(* none, buckets full or empty                                              *)

InitForce ==
    /\ \/ InitLS
       \/ /\ \E bs \in BucketStates : Holds(EmptyState(bs))
          /\ completions = << >>
          /\ daemonPc = "sleep"
          /\ cleanupKeys = {}
          /\ liteHeld = [e \in Ids |-> None]
    /\ pending = NoPending
          /\ wsession = [w \in Workers |-> None]
          /\ current_batch = [w \in Workers |-> << >>]
          /\ batchWaited = [w \in Workers |-> FALSE]
          /\ tried = [w \in Workers |-> << >>]
          /\ running = [w \in Workers |-> "running"]
          /\ clock = 0
          /\ last = NoCall
          /\ faulty = FALSE

\* force_schedule_event(event_id, tier), the call and its result recorded
ForceCall(e, tier) ==
    /\ LET r == force_schedule_event(Cur, e, tier, "none")
       IN  /\ Install(r.s)
           /\ last' = [op |-> "force_schedule_event", id |-> e, ok |-> r.ok, arg |-> tier]
    /\ UNCHANGED << apiVars, daemonVars, workerVars, clock, faulty >>

NextForce ==
    \/ \E e \in PipelineIds, tier \in {LITE_ONLY} \cup DeepTiers : ForceCall(e, tier)
    \/ \E w \in Workers : WorkerPop(w)

SpecForce == InitForce /\ [][NextForce]_vars

---------------------------------------------------------------------------
(* Lite scoring, on the device (lite_brain.py) and on the server            *)
(* (server_lite_scorer.py).  A score is counted in units of 1/ScoreUnit:    *)
(* the base in twentieths, the pet factor in fifths, the perimeter factor   *)
(* in quarters, the night factor in twentieths, the mode factor in tenths.  *)

ScoreUnit == 80000

\* 1 if flag else 0
Bit(flag) == IF flag THEN 1 ELSE 0

\* LiteAIBrain._calculate_exact_scoring(detections, behavior, context, mode):
\* detections as the set of the detected classes, proximity_to_entry in tenths
calculate_exact_scoring(detections, behavior, context, mode) ==
    LET channels == [ person |-> "person" \in detections,
                      vehicle |-> "vehicle" \in detections,
                      pet |-> "pet" \in detections,
                      linger |-> behavior.primary_pattern \in {"lingering", "pacing"} ]
        base == 20 * Bit(channels.person) + 14 * Bit(channels.vehicle) + 3 * Bit(channels.linger)
        pet_factor == 5 - 3 * Bit(channels.pet)
        perimeter_factor == IF behavior.proximity_to_entry > 7 THEN 5 ELSE 4
        night_factor == IF context.time_of_day = "night" THEN 23 ELSE 20
        mode_factor == CASE mode = "stealth" -> 7
                         [] mode = "guardian" -> 10
                         [] mode = "perimeter" -> 13
                         [] OTHER -> 10
        final_score == Max(0, Min(ScoreUnit, base * pet_factor * perimeter_factor * night_factor * mode_factor))
        thresholds == CASE mode = "stealth" -> << 28000, 52000 >>
                        [] mode = "guardian" -> << 24000, 48000 >>
                        [] mode = "perimeter" -> << 20000, 40000 >>
                        [] OTHER -> << 24000, 48000 >>
    IN  [ channels |-> channels, score |-> final_score,
          threshold_met |-> IF final_score < thresholds[1] THEN "low"
                            ELSE IF final_score < thresholds[2] THEN "medium"
                            ELSE "high" ]

\* a variant of the server's scoring whose pet factor is 1 - 0.40*pet
calculate_exact_score_pet40(channels, image_hash, mode) ==
    LET base == 20 * Bit(channels.person) + 14 * Bit(channels.vehicle) + 3 * Bit(channels.linger)
        pet_factor == 5 - 2 * Bit(channels.pet)
        perimeter_factor == IF image_hash % 50 < 15 THEN 5 ELSE 4
        night_factor == IF image_hash % 4 = 0 THEN 23 ELSE 20
        mode_factor == CASE mode = "stealth" -> 7 [] mode = "guardian" -> 10
                         [] mode = "perimeter" -> 13 [] OTHER -> 10
        final_score == Max(0, Min(ScoreUnit, base * pet_factor * perimeter_factor * night_factor * mode_factor))
        thresholds == CASE mode = "stealth" -> << 28000, 52000 >>
                        [] mode = "guardian" -> << 24000, 48000 >>
                        [] mode = "perimeter" -> << 20000, 40000 >>
                        [] OTHER -> << 24000, 48000 >>
    IN  [ score |-> final_score, mode |-> mode,
          threshold_met |-> IF final_score < thresholds[1] THEN "low"
                            ELSE IF final_score < thresholds[2] THEN "medium"
                            ELSE "high" ]

\* LiteClassifier._calculate_exact_score(channels, image_name, mode), with
\* image_hash for hash(image_name): mock_distance = (hash % 50) / 10.0 < 1.5,
\* is_night = hash % 4 == 0
calculate_exact_score(channels, image_hash, mode) ==
    LET base == 20 * Bit(channels.person) + 14 * Bit(channels.vehicle) + 3 * Bit(channels.linger)
        pet_factor == 5 - 3 * Bit(channels.pet)
        mock_distance == image_hash % 50
        perimeter_factor == IF mock_distance < 15 THEN 5 ELSE 4
        is_night == (image_hash % 4) = 0
        night_factor == IF is_night THEN 23 ELSE 20
        mode_factor == CASE mode = "stealth" -> 7
                         [] mode = "guardian" -> 10
                         [] mode = "perimeter" -> 13
                         [] OTHER -> 10
        final_score == Max(0, Min(ScoreUnit, base * pet_factor * perimeter_factor * night_factor * mode_factor))
        thresholds == CASE mode = "stealth" -> << 28000, 52000 >>
                        [] mode = "guardian" -> << 24000, 48000 >>
                        [] mode = "perimeter" -> << 20000, 40000 >>
                        [] OTHER -> << 24000, 48000 >>
    IN  [ score |-> final_score, mode |-> mode,
          threshold_met |-> IF final_score < thresholds[1] THEN "low"
                            ELSE IF final_score < thresholds[2] THEN "medium"
                            ELSE "high" ]

\* inputs of the device's scoring: what was detected, the behaviour, the
\* context, the mode
DeviceInputs ==
    [ detections : SUBSET {"person", "vehicle", "pet"},
      behavior : [ primary_pattern : {"normal_approach", "lingering", "pacing"},
                   proximity_to_entry : {7, 8} ],
      context : [ time_of_day : {"day", "night"} ],
      mode : {"stealth", "guardian", "perimeter"} ]

\* inputs of the server's scoring besides the channels: the hash of the image
\* name (near and at night, near, at night, neither), the mode
ServerInputs ==
    [ image_hash : {0, 1, 16, 17},
      mode : {"stealth", "guardian", "perimeter"} ]

\* one event scored on the device and, with the channels the device found,
\* on the server
ScoreCall(d, v) ==
    /\ last.op = "none"
    /\ LET device == calculate_exact_scoring(d.detections, d.behavior, d.context, d.mode)
       IN  last' = [op |-> "score", id |-> 0, ok |-> TRUE,
                    arg |-> [ d |-> d, v |-> v, device |-> device,
                              server |-> calculate_exact_score(device.channels, v.image_hash, v.mode) ]]
    /\ UNCHANGED << storeVars, apiVars, daemonVars, workerVars, clock, faulty >>

NextScore == \E d \in DeviceInputs, v \in ServerInputs : ScoreCall(d, v)

SpecScore == InitWorker /\ [][NextScore]_vars

\* the near-perimeter and night flags of the inputs of the call just made
DeviceNear == last.arg.d.behavior.proximity_to_entry > 7
DeviceNight == last.arg.d.context.time_of_day = "night"
ServerNear == last.arg.v.image_hash % 50 < 15
ServerNight == last.arg.v.image_hash % 4 = 0

\* the device and the server were given, with the same channels, the same
\* flags and mode
SameInputs ==
    /\ last.op = "score"
    /\ DeviceNear = ServerNear
    /\ DeviceNight = ServerNight
    /\ last.arg.d.mode = last.arg.v.mode

\* the score of the scoring contract, in units of 1/ScoreUnit: clamp01 of
\* base * pet_factor * perimeter_factor * night_factor * mode_factor
ContractScore(channels, near, night, mode) ==
    LET base100 == 100 * Bit(channels.person) + 70 * Bit(channels.vehicle) + 15 * Bit(channels.linger)
        pet100 == 100 - 60 * Bit(channels.pet)
        perimeter100 == IF near THEN 125 ELSE 100
        night100 == IF night THEN 115 ELSE 100
        mode100 == CASE mode = "stealth" -> 70 [] mode = "guardian" -> 100 [] mode = "perimeter" -> 130
        \* (base100 / 5) * (pet100 / 20) * (perimeter100 / 25) * (night100 / 5) * (mode100 / 10)
        product == (base100 \div 5) * (pet100 \div 20) * (perimeter100 \div 25)
                   * (night100 \div 5) * (mode100 \div 10)
    IN  Max(0, Min(ScoreUnit, product))

\* the band of a score under the mode's cutoffs, in hundredths
ContractBand(score, mode) ==
    LET cutoffs == CASE mode = "stealth" -> << 35, 65 >>
                     [] mode = "guardian" -> << 30, 60 >>
                     [] mode = "perimeter" -> << 25, 50 >>
    IN  IF score * 100 < cutoffs[1] * ScoreUnit THEN "low"
        ELSE IF score * 100 < cutoffs[2] * ScoreUnit THEN "medium"
        ELSE "high"

\* C28: device and server lite scoring agree: for every combination of the
\* channel booleans, the near-perimeter flag, the night flag and a mode of
\* stealth, guardian, perimeter, _calculate_exact_scoring and
\* _calculate_exact_score return the same score, which is clamp01(base *
\* pet_factor * perimeter_factor * night_factor * mode_factor), and the same
\* band, which is the band of that score under the mode's cutoffs.
C28_DeviceServerAgree ==
    SameInputs =>
        /\ last.arg.device.score = last.arg.server.score
        /\ last.arg.device.threshold_met = last.arg.server.threshold_met
        /\ last.arg.server.score
             = ContractScore(last.arg.device.channels, ServerNear, ServerNight, last.arg.v.mode)
        /\ last.arg.server.threshold_met = ContractBand(last.arg.server.score, last.arg.v.mode)

\* a person with a pet near the perimeter by day, scored in stealth mode on
\* both sides: the score is the low cutoff itself and the band is medium
C28_Witness ==
    /\ SameInputs
    /\ last.arg.v.mode = "stealth"
    /\ last.arg.device.channels = [person |-> TRUE, vehicle |-> FALSE, pet |-> TRUE, linger |-> FALSE]
    /\ ServerNear /\ ~ServerNight
    /\ last.arg.device.score * 100 = 35 * ScoreUnit
    /\ last.arg.device.threshold_met = "medium"

---------------------------------------------------------------------------
(* Stopping a worker: stop_processing() while sessions and legacy jobs      *)
(* arrive and are processed, the key-value store raising nothing            *)

\* a variant of the exit that leaves the batch as it is
drain_skipped(cs, batch, outcomes) ==
    [completions |-> cs, batch |-> batch]

\* start_processing after the loop: if self.current_batch:
\* await self._process_current_batch()
drain_at_exit(cs, batch, outcomes) ==
    IF batch # << >>
    THEN [completions |-> process_current_batch(cs, batch, outcomes, "none").completions,
          batch |-> << >>]
    ELSE [completions |-> cs, batch |-> batch]

\* what arrives: the session of a life-safety preemption of event 1, legacy
\* jobs of event 2
StopInputs ==
    { LifeSafetySession(DirectCandidate(1, STANDARD)),
      JobData(DirectCandidate(2, STANDARD), STANDARD) }

\* stop_processing()
StopProcessing(w) ==
    /\ running[w] = "running"
    /\ running' = [running EXCEPT ![w] = "stopping"]
    /\ UNCHANGED << storeVars, wsession, current_batch, batchWaited, tried, completions,
                    apiVars, daemonVars, clock, last, faulty >>

\* start_processing: the while test fails at the top of an iteration; the
\* remaining legacy jobs are processed and the loop is left
WorkerExit(w, outcomes) ==
    /\ running[w] = "stopping"
    /\ wsession[w] = None
    /\ tried[w] = << >>
    /\ ~should_process_batch(current_batch[w], batchWaited[w])
    /\ DOMAIN outcomes = 1..Len(current_batch[w])
    /\ LET r == drain_at_exit(completions, current_batch[w], outcomes)
       IN  /\ completions' = r.completions
           /\ current_batch' = [current_batch EXCEPT ![w] = r.batch]
    /\ running' = [running EXCEPT ![w] = "exited"]
    /\ last' = [op |-> "exit", id |-> 0, ok |-> TRUE, arg |-> current_batch[w]]
    /\ UNCHANGED << storeVars, wsession, batchWaited, tried, apiVars, daemonVars, clock, faulty >>

ExitOutcomes == BatchOutcomes \cup {<< >>}

\* the steps of the worker's coroutine
WorkerStep(w) ==
    \/ WorkerTry(w)
    \/ \E setup_ms \in SetupMs, event_ms \in EventMs : ProcessSession(w, setup_ms, event_ms, "none")
    \/ \E outcomes \in BatchOutcomes : ProcessBatch(w, outcomes, "none")
    \/ \E outcomes \in ExitOutcomes : WorkerExit(w, outcomes)

NextStop ==
    \/ \E d \in StopInputs : Arrive(d)
    \/ \E w \in Workers : WorkerTry(w)
    \/ \E w \in Workers, setup_ms \in SetupMs, event_ms \in EventMs :
           ProcessSession(w, setup_ms, event_ms, "none")
    \/ \E w \in Workers, outcomes \in BatchOutcomes : ProcessBatch(w, outcomes, "none")
    \/ \E w \in Workers : WorkerWait(w)
    \/ \E w \in Workers : StopProcessing(w)
    \/ \E w \in Workers, outcomes \in ExitOutcomes : WorkerExit(w, outcomes)

\* the event loop keeps running the worker's coroutine: a BRPOP returns
\* within its timeout, and the processing of a session or a batch ends
SpecStop ==
    InitWorker /\ [][NextStop]_vars
    /\ \A w \in Workers : WF_<< wsession, current_batch, tried, running >>(WorkerStep(w))

\* the legacy jobs on the queues, in the worker's batch, or completed
JobsAccounted ==
    Cardinality({<< q, i >> \in QueueNames \X (1..MaxQueued) :
                    i <= Len(queues[q]) /\ queues[q][i].kind = "job"})
    + SumLen(current_batch, Workers)
    + Cardinality({i \in 1..Len(completions) : completions[i].event_id = 2})

\* C31: after stop_processing has set running to false the worker's loop
\* ends, having finished its current unit of work; at exit the legacy batch
\* is empty; and every legacy job the worker popped has been processed and
\* has a completion record: no step but an arrival changes the number of
\* jobs queued, batched or completed.
C31_StopDrainsBatch ==
    /\ \A w \in Workers : (running[w] = "stopping") ~> (running[w] = "exited")
    /\ [](\A w \in Workers : running[w] = "exited" => current_batch[w] = << >> /\ wsession[w] = None)
    /\ [][(\E d \in StopInputs : Arrive(d)) \/ JobsAccounted' = JobsAccounted]_vars

\* a worker has exited having drained a batch of one job at its exit, which
\* has its completion record
C31_Witness ==
    /\ last.op = "exit"
    /\ Len(last.arg) = 1
    /\ \A w \in Workers : running[w] = "exited" /\ current_batch[w] = << >>
    /\ \E i \in 1..Len(completions) : completions[i].event_id = 2

---------------------------------------------------------------------------
(* scheduler.py: TokenBucket on its own.  The buckets of a started          *)
(* scheduler are consumed from and asked for their waiting time while time  *)
(* passes.                                                                  *)

\* TokenBucket.time_until_tokens(tokens_needed), in seconds, as the fraction
\* num / den: 0.0, or tokens_deficit / refill_rate
time_until_tokens(b, tokens_needed) ==
    IF b.tokens60 >= tokens_needed * 60 THEN [num |-> 0, den |-> 1]
    ELSE [num |-> tokens_needed * 60 - b.tokens60, den |-> b.rate60]

\* token_buckets[tier].time_until_tokens(tokens_needed)
TimeUntilCall(t, tokens_needed) ==
    /\ LET r == time_until_tokens(buckets[t], tokens_needed)
       IN  last' = [op |-> "time_until_tokens", id |-> t, ok |-> r.num = 0,
                    arg |-> [tokens_needed |-> tokens_needed, num |-> r.num, den |-> r.den]]
    /\ UNCHANGED << storeVars, apiVars, daemonVars, workerVars, clock, faulty >>

\* TickSeconds pass
BucketWait ==
    /\ clock < MaxTicks
    /\ clock' = clock + 1
    /\ buckets' = [t \in DOMAIN buckets |->
                     [buckets[t] EXCEPT !.elapsed = Min(BucketHorizon, @ + TickSeconds)]]
    /\ UNCHANGED << ev, cand, ttl, max_per_home, marker, queues, processing_jobs, jobTier,
                    apiVars, daemonVars, workerVars, last, faulty >>

NextBucket ==
    \/ \E t \in DeepTiers, n \in 1..(MaxTokensNeeded + 1) : ConsumeCall(t, n)
    \/ \E t \in DeepTiers, n \in 1..(MaxTokensNeeded + 1) : TimeUntilCall(t, n)
    \/ BucketWait

SpecBucket == InitWorker /\ [][NextBucket]_vars

\* C32: time_until_tokens(n) returns 0 exactly when a consume(n) at the same
\* instant would succeed, and otherwise a time after which it would succeed;
\* on a bucket that holds nothing at that instant consume(1) fails and
\* time_until_tokens(1) is 1 / refill_rate.
C32_EtaMatchesConsume ==
    [][\A t \in DeepTiers, n \in 1..(MaxTokensNeeded + 1) :
          TimeUntilCall(t, n) =>
             /\ (last'.arg.num = 0) <=> consume(buckets[t], n).ok
             /\ last'.arg.num # 0 /\ n <= buckets[t].capacity =>
                   Refilled(buckets[t]) + last'.arg.num >= n * 60
             /\ Refilled(buckets[t]) = 0 /\ n = 1 =>
                   /\ ~consume(buckets[t], 1).ok
                   /\ last'.arg.num * buckets[t].rate60 = 60 * last'.arg.den]_vars

---------------------------------------------------------------------------
(* The backlog a round measures: a scheduler with just under or over        *)
(* autothrottle_threshold events in flight and a few PREMIUM candidates in  *)
(* its store; rounds, clean-ups and a worker that takes jobs off the queues *)

MaxBacklogEvents == 2

InitBacklog ==
    /\ \E n \in (autothrottle_threshold - 2)..(autothrottle_threshold + 1), k \in 0..MaxBacklogEvents :
          Holds(AddAll([EmptyState(initialize_token_buckets) EXCEPT !.jobs = Backlog(n)],
                       [e \in 1..k |-> DirectCandidate(e, PREMIUM)]))
    /\ completions = << >>
    /\ daemonPc = "round"
    /\ cleanupKeys = {}
    /\ liteHeld = [e \in Ids |-> None]
    /\ pending = NoPending
    /\ wsession = [w \in Workers |-> None]
    /\ current_batch = [w \in Workers |-> << >>]
    /\ batchWaited = [w \in Workers |-> FALSE]
    /\ tried = [w \in Workers |-> << >>]
    /\ running = [w \in Workers |-> "running"]
    /\ clock = 0
    /\ last = NoCall
    /\ faulty = FALSE

NextBacklog ==
    \/ \E horder \in HomeOrders : RoundCall(horder)
    \/ DaemonCleanupKeys
    \/ DaemonCleanupExists
    \/ (clock < MaxTicks /\ Tick)
    \/ \E w \in Workers : WorkerPop(w)

SpecBacklog == InitBacklog /\ [][NextBacklog]_vars

\* the backlog as the specification defines it: the lengths of the queues of
\* the deep tiers plus the size of the in-flight set
DeepBacklog ==
    Len(queues["standard"]) + Len(queues["premium"]) + Len(queues["enterprise"])
    + Cardinality(processing_jobs)

---------------------------------------------------------------------------
(* The order of a tier's pass: candidates of one tier, submitted at
   different ages and priorities, fetched some minutes after they were
   stored *)

OrderMinutes == 40

OrderIds == 1..3

\* a STANDARD candidate, a person detected or not, whose timestamp lies age
\* minutes back
OrderCandidate(e, person, age) ==
    [DirectCandidate(e, STANDARD) EXCEPT !.person_detected = person, !.age_min = age]

\* datetime.utcnow() has moved on by m minutes: calculate_score of a stored
\* record sees an age m minutes greater, the index keeps the score of the add
Older(s, m) ==
    [s EXCEPT !.ev = [e \in DOMAIN s.ev |->
                        IF s.ev[e] = None THEN None
                        ELSE [s.ev[e] EXCEPT !.age_min = @ + m]]]

InitOrder ==
    /\ \E ps \in [OrderIds -> BOOLEAN], ages \in [OrderIds -> {0, 55}], m \in {0, OrderMinutes} :
          Holds(Older(AddAll(EmptyState(initialize_token_buckets),
                             [e \in OrderIds |-> OrderCandidate(e, ps[e], ages[e])]), m))
    /\ completions = << >>
    /\ daemonPc = "round"
    /\ cleanupKeys = {}
    /\ liteHeld = [e \in Ids |-> None]
    /\ pending = NoPending
    /\ wsession = [w \in Workers |-> None]
    /\ current_batch = [w \in Workers |-> << >>]
    /\ batchWaited = [w \in Workers |-> FALSE]
    /\ tried = [w \in Workers |-> << >>]
    /\ running = [w \in Workers |-> "running"]
    /\ clock = 0
    /\ last = NoCall
    /\ faulty = FALSE

\* OrderMinutes pass while the daemon sleeps
Elapse ==
    /\ daemonPc = "sleep"
    /\ clock < MaxTicks
    /\ clock' = clock + 1
    /\ ev' = Older(Cur, OrderMinutes).ev
    /\ buckets' = [t \in DOMAIN buckets |-> [buckets[t] EXCEPT !.elapsed = BucketHorizon]]
    /\ marker' = [e \in Ids |-> Max(0, marker[e] - OrderMinutes * 60)]
    /\ batchWaited' = [w \in Workers |-> TRUE]
    /\ daemonPc' = "round"
    /\ UNCHANGED << cand, ttl, max_per_home, queues, processing_jobs, jobTier, cleanupKeys, apiVars,
                    wsession, current_batch, tried, running, completions, last, faulty >>

NextOrder ==
    \/ \E horder \in HomeOrders : RoundCall(horder)
    \/ DaemonCleanupKeys
    \/ DaemonCleanupExists
    \/ Elapse

SpecOrder == InitOrder /\ [][NextOrder]_vars

\* the score the index of its home holds for a stored event
StoredScore(e) == cand[CHOOSE h \in Homes : e \in DOMAIN cand[h]][e]

---------------------------------------------------------------------------
(* A round in which the passes of some tiers fail: the store raising while
   the tier's candidates are fetched, or while they are enqueued or removed *)

TierErrs == Errs \cup {"fetch"}

\* _schedule_tier with the store raising err; get_candidates_by_tier returns
\* [] when the store raises (its except branch), the pass returns at once
schedule_tier_err(s, tier, horder, err) ==
    IF err = "fetch"
    THEN [s |-> s, candidates_found |-> 0, scheduled |-> 0, rate_limited |-> 0]
    ELSE schedule_tier(s, tier, horder, err)

RECURSIVE ScheduleTiersAbort(_, _, _, _, _)
\* a variant whose loop ends at the first tier whose pass fails
ScheduleTiersAbort(s, tiers, horder, errs, stats) ==
    IF tiers = << >> THEN [s |-> s, stats |-> stats]
    ELSE IF Head(tiers) = LITE_ONLY
    THEN ScheduleTiersAbort(s, Tail(tiers), horder, errs, stats)
    ELSE LET r == schedule_tier_err(s, Head(tiers), horder, errs[Head(tiers)])
             stats1 == [stats EXCEPT
                          !.scheduled[Head(tiers)] = r.scheduled,
                          !.rate_limited[Head(tiers)] = r.rate_limited,
                          !.candidates_found[Head(tiers)] = r.candidates_found]
         IN  IF errs[Head(tiers)] # "none" THEN [s |-> r.s, stats |-> stats1]
             ELSE ScheduleTiersAbort(r.s, Tail(tiers), horder, errs, stats1)

RECURSIVE ScheduleTiersErrs(_, _, _, _, _)
\* the loop of schedule_round over ProcessingTier, the pass of tier t made
\* with the store raising errs[t]
ScheduleTiersErrs(s, tiers, horder, errs, stats) ==
    IF tiers = << >> THEN [s |-> s, stats |-> stats]
    ELSE IF Head(tiers) = LITE_ONLY
    THEN ScheduleTiersErrs(s, Tail(tiers), horder, errs, stats)
    ELSE LET r == schedule_tier_err(s, Head(tiers), horder, errs[Head(tiers)])
         IN  ScheduleTiersErrs(r.s, Tail(tiers), horder, errs,
                 [stats EXCEPT
                    !.scheduled[Head(tiers)] = r.scheduled,
                    !.rate_limited[Head(tiers)] = r.rate_limited,
                    !.candidates_found[Head(tiers)] = r.candidates_found])

\* the state schedule_round hands to its tier passes
AfterThrottle(s) ==
    IF get_deep_processing_backlog(s) > autothrottle_threshold THEN apply_autothrottle(s) ELSE s

\* schedule_round, the pass of tier t made with the store raising errs[t]
schedule_round_errs(s, horder, errs) ==
    LET deep_backlog == get_deep_processing_backlog(s)
        stats0 == [ scheduled |-> [t \in DeepTiers |-> 0],
                    rate_limited |-> [t \in DeepTiers |-> 0],
                    candidates_found |-> [t \in DeepTiers |-> 0],
                    autothrottled |-> deep_backlog > autothrottle_threshold,
                    backlog_size |-> deep_backlog ]
    IN  ScheduleTiersErrs(AfterThrottle(s), ProcessingTier, horder, errs, stats0)

\* SchedulerDaemon.start: schedule_round, its stats and the failures of its
\* passes recorded
RoundErrsCall(horder, errs) ==
    /\ daemonPc = "round"
    /\ LET r == schedule_round_errs(Cur, horder, errs)
       IN  /\ Install(r.s)
           /\ last' = [op |-> "schedule_round", id |-> 0, ok |-> TRUE,
                       arg |-> [scheduled |-> r.stats.scheduled,
                                rate_limited |-> r.stats.rate_limited,
                                candidates_found |-> r.stats.candidates_found,
                                horder |-> horder, errs |-> errs]]
    /\ daemonPc' = "keys"
    /\ UNCHANGED << cleanupKeys, apiVars, workerVars, clock, faulty >>

\* the passes of a round of which at most one fails; the daemon makes two
\* rounds, one sleep between them
OneTierFails ==
    {errs \in [DeepTiers -> TierErrs] : Cardinality({t \in DeepTiers : errs[t] # "none"}) <= 1}

NextTierFaults ==
    \/ \E horder \in HomeOrders, errs \in OneTierFails : RoundErrsCall(horder, errs)
    \/ DaemonCleanupKeys
    \/ DaemonCleanupExists
    \/ (clock = 0 /\ Tick)

MaxTierEvents == 9

\* a started scheduler over a store of up to MaxTierEvents candidates, the
\* tiers taking them in turn
InitTierFaults ==
    /\ \E n \in 0..MaxTierEvents :
          Holds(AddAll(EmptyState(initialize_token_buckets),
                       [e \in 1..n |-> DirectCandidate(e, DeepTierSeq[(e % 3) + 1])]))
    /\ completions = << >>
    /\ daemonPc = "round"
    /\ cleanupKeys = {}
    /\ liteHeld = [e \in Ids |-> None]
    /\ pending = NoPending
    /\ wsession = [w \in Workers |-> None]
    /\ current_batch = [w \in Workers |-> << >>]
    /\ batchWaited = [w \in Workers |-> FALSE]
    /\ tried = [w \in Workers |-> << >>]
    /\ running = [w \in Workers |-> "running"]
    /\ clock = 0
    /\ last = NoCall
    /\ faulty = FALSE

SpecTierFaults == InitTierFaults /\ [][NextTierFaults]_vars

\* the pass of tier t made alone on the state the round starts its passes from
AlonePass(t, horder, err) == schedule_tier_err(AfterThrottle(Cur), t, horder, err)

TokensTaken(t) ==
    Min(buckets[t].capacity * 60, buckets[t].tokens60 + buckets[t].elapsed * buckets[t].rate60)
    - buckets'[t].tokens60

\* C36: when an enqueue of a tier's pass fails (the queue or the store
\* unavailable at LPUSH or SETEX) the pass stops: no further candidate of
\* the tier is attempted, so the round takes at most one token from the
\* tier's bucket and pushes at most one descriptor to its queue.
C36_EnqueueFailureStopsPass ==
    [][RoundStep =>
          \A t \in DeepTiers :
             last'.arg.errs[t] \in {"lpush", "setex"} =>
                /\ TokensTaken(t) <= 60
                /\ Len(queues'[TierName(t)]) <= Len(queues[TierName(t)]) + 1]_vars


---------------------------------------------------------------------------
(* The candidate store under concurrent callers: add_candidate and
   remove_candidate are coroutines that give up control at each await of a
   store command, so the commands of one call interleave with those of
   another (on_lite_results and the API adding, the scheduler removing).
   One add and one remove may be suspended at a time; every candidate is
   submitted under the same home each time; the store keeps StoreCap
   candidates per home. *)

\* candidates of StoreIds ids under home h2, a person detected or not
RaceCandidates == { StoreCandidate(e, "h2", p) : e \in 1..StoreIds, p \in BOOLEAN }

\* add_candidate up to its first command: EXISTS ev:{event_id}
AddBegin(c) ==
    /\ pending.add = None
    /\ pending' = [pending EXCEPT !.add = [c |-> c, old |-> << >>,
                                           pc |-> IF ev[c.event_id] # None THEN "update" ELSE "hset"]]
    /\ UNCHANGED << storeVars, liteHeld, daemonVars, workerVars, clock, last, faulty >>

\* add_candidate, an event that existed: ZADD and EXPIRE of the index, return
AddUpdate ==
    /\ pending.add # None /\ pending.add.pc = "update"
    /\ Install(index_candidate(Cur, pending.add.c))
    /\ pending' = [pending EXCEPT !.add = None]
    /\ UNCHANGED << liteHeld, daemonVars, workerVars, clock, last, faulty >>

\* add_candidate, a new event: HSET and EXPIRE of the record
AddHset ==
    /\ pending.add # None /\ pending.add.pc = "hset"
    /\ Install(store_record(Cur, pending.add.c))
    /\ pending' = [pending EXCEPT !.add.pc = "zadd"]
    /\ UNCHANGED << liteHeld, daemonVars, workerVars, clock, last, faulty >>

\* add_candidate, a new event: ZADD and EXPIRE of the index
AddZadd ==
    /\ pending.add # None /\ pending.add.pc = "zadd"
    /\ Install(index_candidate(Cur, pending.add.c))
    /\ pending' = [pending EXCEPT !.add.pc = "zcard"]
    /\ UNCHANGED << liteHeld, daemonVars, workerVars, clock, last, faulty >>

\* _cleanup_old_candidates: ZCARD and ZRANGE; within the cap it returns, and
\* so does add_candidate
AddTrimRead ==
    /\ pending.add # None /\ pending.add.pc = "zcard"
    /\ LET h == pending.add.c.home_id
           count == Cardinality(DOMAIN cand[h])
           old_candidates == zrange(cand[h], count - max_per_home)
       IN  pending' = IF count > max_per_home /\ old_candidates # << >>
                      THEN [pending EXCEPT !.add.pc = "zrem", !.add.old = old_candidates]
                      ELSE [pending EXCEPT !.add = None]
    /\ UNCHANGED << storeVars, liteHeld, daemonVars, workerVars, clock, last, faulty >>

\* _cleanup_old_candidates: ZREM of the old candidates
AddTrimZrem ==
    /\ pending.add # None /\ pending.add.pc = "zrem"
    /\ LET h == pending.add.c.home_id
           old == {pending.add.old[i] : i \in 1..Len(pending.add.old)}
           kept == [x \in (DOMAIN cand[h]) \ old |-> cand[h][x]]
       IN  /\ cand' = [cand EXCEPT ![h] = kept]
           /\ ttl' = [ttl EXCEPT !.cand[h] = KeyTtl(kept, ttl.cand[h])]
    /\ pending' = [pending EXCEPT !.add.pc = "delete"]
    /\ UNCHANGED << ev, max_per_home, marker, queues, buckets, processing_jobs, jobTier,
                    liteHeld, daemonVars, workerVars, clock, last, faulty >>

\* _cleanup_old_candidates: DELETE of the old candidates' records, return
AddTrimDelete ==
    /\ pending.add # None /\ pending.add.pc = "delete"
    /\ ev' = DeleteRecords(ev, pending.add.old)
    /\ ttl' = [ttl EXCEPT !.ev = [e \in Ids |->
                  IF \E i \in 1..Len(pending.add.old) : pending.add.old[i] = e THEN 0 ELSE ttl.ev[e]]]
    /\ pending' = [pending EXCEPT !.add = None]
    /\ UNCHANGED << cand, max_per_home, marker, queues, buckets, processing_jobs, jobTier,
                    liteHeld, daemonVars, workerVars, clock, last, faulty >>

\* remove_candidate(event_id, home_id) of a candidate the caller has fetched
\* (from the index of its home, then its record): ZREM of the index entry
RemoveBegin(e) ==
    /\ pending.remove = None
    /\ ev[e] # None
    /\ e \in DOMAIN cand[ev[e].home_id]
    /\ LET h == ev[e].home_id
           kept == Drop(cand[h], e)
       IN  /\ cand' = [cand EXCEPT ![h] = kept]
           /\ ttl' = [ttl EXCEPT !.cand[h] = KeyTtl(kept, ttl.cand[h])]
    /\ pending' = [pending EXCEPT !.remove = [e |-> e, pc |-> "delete"]]
    /\ UNCHANGED << ev, max_per_home, marker, queues, buckets, processing_jobs, jobTier,
                    liteHeld, daemonVars, workerVars, clock, last, faulty >>

\* remove_candidate: DELETE of the record, return
RemoveDelete ==
    /\ pending.remove # None
    /\ ev' = [ev EXCEPT ![pending.remove.e] = None]
    /\ ttl' = [ttl EXCEPT !.ev[pending.remove.e] = 0]
    /\ pending' = [pending EXCEPT !.remove = None]
    /\ UNCHANGED << cand, max_per_home, marker, queues, buckets, processing_jobs, jobTier,
                    liteHeld, daemonVars, workerVars, clock, last, faulty >>

NextRace ==
    \/ \E c \in RaceCandidates : AddBegin(c)
    \/ AddUpdate
    \/ AddHset
    \/ AddZadd
    \/ AddTrimRead
    \/ AddTrimZrem
    \/ AddTrimDelete
    \/ \E e \in 1..StoreIds : RemoveBegin(e)
    \/ RemoveDelete

SpecRace == InitStore /\ [][NextRace]_vars

\* C37: once every add_candidate and remove_candidate call has returned,
\* however their commands interleaved, every event_id in an index cand:{home}
\* has a record ev:{event_id} and every record is a member of the index of
\* its home.
C37_IndexMatchesRecords ==
    pending = NoPending =>
        \A e \in Ids :
            /\ (\E h \in Homes : e \in DOMAIN cand[h]) => ev[e] # None
            /\ ev[e] # None => e \in DOMAIN cand[ev[e].home_id]


---------------------------------------------------------------------------
(* get_candidates_by_tier on its own: fetches at small limits from a store
   whose homes hold candidates of several tiers *)

MaxFetchLimit == 2

\* the event ids of a list of candidates
EventIdsOf(cs) == {cs[i].event_id : i \in 1..Len(cs)}

\* get_candidates_by_tier(processing_tier, limit), the call and the events
\* it returned recorded
FetchCall(tier, limit, horder) ==
    /\ last' = [op |-> "get_candidates_by_tier", id |-> tier, ok |-> TRUE,
                arg |-> [limit |-> limit,
                         returned |-> EventIdsOf(get_candidates_by_tier(Cur, tier, limit, horder))]]
    /\ UNCHANGED << storeVars, apiVars, daemonVars, workerVars, clock, faulty >>

NextFetch ==
    \/ \E tier \in DeepTiers, limit \in 1..MaxFetchLimit, horder \in HomeOrders :
          FetchCall(tier, limit, horder)
    \/ \E e \in 1..StoreIds : RemoveCall(e)

SpecFetch == InitTierFaults /\ [][NextFetch]_vars

\* the stored candidates of a tier: a record, and an entry in the index of
\* the record's home
StoredOfTier(tier) ==
    {e \in Ids : ev[e] # None /\ ev[e].processing_tier = tier /\ e \in DOMAIN cand[ev[e].home_id]}

\* C38: get_candidates_by_tier(T, limit) returns a stored candidate of tier T
\* whenever fewer than limit other stored candidates of tier T have its index
\* score or a higher one, whatever candidates of other tiers its home holds.
\* (Equal scores are counted against the candidate, so that a tie within the
\* tier is never what keeps it out.)
C38_NoTierStarvation ==
    [][\A tier \in DeepTiers, limit \in 1..MaxFetchLimit, horder \in HomeOrders :
          FetchCall(tier, limit, horder) =>
             \A e \in StoredOfTier(tier) :
                Cardinality({x \in StoredOfTier(tier) \ {e} : StoredScore(x) >= StoredScore(e)}) < limit
                => e \in last'.arg.returned]_vars


---------------------------------------------------------------------------
(* on_lite_results and the stored record *)

\* C39: when on_lite_results(event_id, r) has re-added an event that is in
\* the store, the stored record has lite_processed = true, the explainer and
\* the channels of r, and the index score of the event is the score computed
\* from the stored record.
C39_LiteResultsStored ==
    [][\A e \in PipelineIds :
          LiteAdd(e) /\ get_candidate(Cur, e) # None =>
             /\ ev'[e] # None
             /\ ev'[e].lite_processed
             /\ ev'[e].lite_explainer = liteHeld[e].lite_explainer
             /\ ev'[e].person_detected = liteHeld[e].person_detected
             /\ ev'[e].vehicle_detected = liteHeld[e].vehicle_detected
             /\ cand'[ev'[e].home_id][e] = calculate_score(ev'[e])]_vars


---------------------------------------------------------------------------
(* The capacity of the buckets over the rounds of a scheduler whose backlog
   rises above autothrottle_threshold and falls back *)

\* C40: no step of the scheduler raises the capacity of a bucket: a capacity
\* that autothrottle has lowered stays at or below that value in every later
\* round, the rounds after the backlog has fallen to the threshold or below
\* included.
C40_CapacityNeverRises ==
    [][\A t \in DOMAIN buckets : buckets'[t].capacity <= buckets[t].capacity]_vars

\* C40 witness: a round that found the backlog at or below the threshold and
\* did not throttle, the PREMIUM and ENTERPRISE capacities still being the
\* lowered ones of an earlier round
C40_Witness ==
    /\ last.op = "schedule_round"
    /\ daemonPc = "keys"
    /\ ~last.arg.autothrottled
    /\ last.arg.backlog_size <= autothrottle_threshold
    /\ buckets[PREMIUM].capacity = 5
    /\ buckets[ENTERPRISE].capacity = 19
    /\ buckets[STANDARD].capacity = 2

====
